---- MODULE Spec2Model ----
(***************************************************************************)
(* PublicnEUro DataCatalogue import scripts: the workbook export           *)
(* (import/export_xlsx.py), the file catalogue writer                      *)
(* (import/file_metadata_utils.py) and the processing pipeline             *)
(* (import/process_dataset.py).                                            *)
(*                                                                         *)
(* Python values are records  [k, t, s, n, c]:                             *)
(*   k  the key under which the value sits in its mapping ("" elsewhere),  *)
(*   t  the type: "none", "nan" (float NaN), "str", "num" (an int),        *)
(*      "float" (a float with a whole value), "list", "dict",              *)
(*   s  the characters of a str, as a sequence of one-character strings,   *)
(*   n  the number of a num or float,                                      *)
(*   c  the items of a list, or the (keyed) values of a dict, in order.    *)
(***************************************************************************)
EXTENDS Integers, Sequences, FiniteSets, TLC

VARIABLES
    data,          \* value cleaner: the structure handed to the cleaner
    cleaned,       \* value cleaner: remove_nan_and_na_values(data)
    recleaned,     \* value cleaner: the cleaner applied to its own result
    dataset_jsonl, \* catalogue: the JSON object held by the dataset JSONL file
    file_list,     \* catalogue: the file entries supplied (file_list_source)
    output_file,   \* catalogue: the output_file argument, None or a path
    catalog_file,  \* catalogue: the lines of the output file, each a JSON object
    pfm_outcome,   \* catalogue: how the last process_file_metadata call ended
    pfm_return,    \* catalogue: the path the last successful call returned
    pfm_runs,      \* catalogue: the calls of process_file_metadata made
    workbook,      \* export: the workbook (aux_dict, as pandas reads it)
    xml_file,      \* export: the XML output file, Unset while there is none
    jsonl_file,    \* export: the JSONL output file, its one JSON object
    export_call,   \* export: the last call made and the exception it raised
    validation,    \* export: the validate_metadata call of the last call
    pd_pc,         \* pipeline: the statement process_dataset stands at
    pd_calls,      \* pipeline: the calls made so far and how each ended
    dataset_pattern, \* pipeline: the pattern built from the written record
    validate_result, \* pipeline: the exit code of datalad catalog-validate
    import_result, \* pipeline: the exit code of datalad catalog-add
    pd_raised,     \* pipeline: the exception process_dataset ended in
    pd_return,     \* pipeline: the dict process_dataset returned
    cell_value,    \* normalizers: the cell handed to a normalizer
    normalizer,    \* normalizers: the function applied to it, "none" before
    normalized,    \* normalizers: what the function returned
    renormalized,  \* normalizers: format_version applied to its own result
    directory_path, \* file lister: the path of the directory scanned
    tree,          \* file lister: the files under it, in listing order
    lister,        \* file lister: the module whose get_file_info ran
    file_info,     \* file lister: the list get_file_info returned
    folder,        \* dataset finder: the folder searched, by its entries
    finder,        \* dataset finder: the module whose fetch_set ran
    dataset_file,  \* dataset finder: what fetch_set returned
    fetch_raised,  \* dataset finder: the exception fetch_set ended in
    program,       \* command line: the script run, "none" before
    argv,          \* command line: sys.argv[1:]
    existing,      \* command line: the paths that exist
    exit_code,     \* command line: the exit code, Unset while running
    written_files, \* command line: the files export_xlsx.py has written
    ucb_file,      \* hasPart repair: the lines of the JSONL file repaired
    ucb_before,    \* hasPart repair: the lines the file held before the call
    ucb_call,      \* hasPart repair: the script run and how it ended
    size_file,     \* size update: what the dataset JSON file holds
    size_before,   \* size update: what it held before the last call
    size_return,   \* size update: what the last call returned, "none" before
    size_updates,  \* size update: the calls that returned True
    size_calls,    \* size update: the calls made
    children,      \* children order: the list handed to sort_children
    sorted_children, \* children order: what sort_children returned
    resorted_children, \* children order: sort_children of what it returned
    cwd,           \* catalogue search: the working directory of the process
    cwd_found,     \* catalogue search: the working directory before the call
    fc_pc,         \* catalogue search: the statement find_catalogue_set_file stands at
    fc_args,       \* catalogue search: the arguments of the call
    catalogue,     \* catalogue search: the metadata directory and its dataset files
    catalogue_found, \* catalogue search: the same before the call
    fc_results,    \* catalogue search: the directories whose dataset file was found
    fc_raised      \* catalogue search: the exception the call ended in

cleanVars == <<data, cleaned, recleaned>>

catalogVars ==
    <<dataset_jsonl, file_list, output_file, catalog_file, pfm_outcome,
      pfm_return, pfm_runs>>

exportVars == <<workbook, xml_file, jsonl_file, export_call, validation>>

pipelineVars ==
    <<pd_pc, pd_calls, dataset_pattern, validate_result, import_result, pd_raised,
      pd_return>>

normVars == <<cell_value, normalizer, normalized, renormalized>>

listerVars == <<directory_path, tree, lister, file_info>>

finderVars == <<folder, finder, dataset_file, fetch_raised>>

cliVars == <<program, argv, existing, exit_code, written_files>>

ucbVars == <<ucb_file, ucb_before, ucb_call>>

\* the command lines and the maintenance tools
sizeVars == <<size_file, size_before, size_return, size_updates, size_calls>>

sortVars == <<children, sorted_children, resorted_children>>

searchVars ==
    <<cwd, cwd_found, fc_pc, fc_args, catalogue, catalogue_found, fc_results, fc_raised>>

toolVars == <<cliVars, ucbVars, sizeVars, sortVars, searchVars>>

\* the tools beside the command lines, and beside the hasPart repair
besideCli == <<ucbVars, sizeVars, sortVars, searchVars>>

besideUcb == <<cliVars, sizeVars, sortVars, searchVars>>

besideSize == <<cliVars, ucbVars, sortVars, searchVars>>

besideSort == <<cliVars, ucbVars, sizeVars, searchVars>>

besideSearch == <<cliVars, ucbVars, sizeVars, sortVars>>

vars ==
    <<cleanVars, catalogVars, exportVars, pipelineVars, normVars, listerVars,
      finderVars, toolVars>>

----------------------------------------------------------------------------
(* Python values *)

PyNone == [k |-> "", t |-> "none", s |-> <<>>, n |-> 0, c |-> <<>>]

PyNaN == [k |-> "", t |-> "nan", s |-> <<>>, n |-> 0, c |-> <<>>]

PyStr(chars) == [k |-> "", t |-> "str", s |-> chars, n |-> 0, c |-> <<>>]

PyNum(i) == [k |-> "", t |-> "num", s |-> <<>>, n |-> i, c |-> <<>>]

PyFloat(i) == [k |-> "", t |-> "float", s |-> <<>>, n |-> i, c |-> <<>>]

PyList(items) == [k |-> "", t |-> "list", s |-> <<>>, n |-> 0, c |-> items]

PyDict(items) == [k |-> "", t |-> "dict", s |-> <<>>, n |-> 0, c |-> items]

\* the characters of a string
Chars(str) == [i \in 1..Len(str) |-> SubSeq(str, i, i)]

\* a str, of the characters of a string
Str(text) == PyStr(Chars(text))

\* the entry  key: value  of a mapping
At(key, value) == [value EXCEPT !.k = key]

\* a variable that holds no value yet
Unset == [k |-> "", t |-> "unset", s |-> <<>>, n |-> 0, c |-> <<>>]

HasKey(d, key) == \E i \in 1..Len(d.c) : d.c[i].k = key

\* d[key], for a key the mapping holds: the value, no longer under its key
Get(d, key) == [d.c[CHOOSE i \in 1..Len(d.c) : d.c[i].k = key] EXCEPT !.k = ""]

\* d.get(key, default)
GetOr(d, key, default) == IF HasKey(d, key) THEN Get(d, key) ELSE default

\* bool(value) of Python
Truthy(v) ==
    CASE v.t = "none" -> FALSE
      [] v.t = "nan"  -> TRUE
      [] v.t = "str"  -> v.s # <<>>
      [] v.t \in {"num", "float"} -> v.n # 0
      [] OTHER        -> v.c # <<>>

----------------------------------------------------------------------------
(* str methods, on sequences of characters *)

Whitespace == {" ", "\t", "\n", "\r"}

RECURSIVE LStrip(_)
LStrip(chars) ==
    IF chars # <<>> /\ Head(chars) \in Whitespace THEN LStrip(Tail(chars)) ELSE chars

RECURSIVE RStrip(_)
RStrip(chars) ==
    IF chars # <<>> /\ chars[Len(chars)] \in Whitespace
    THEN RStrip(SubSeq(chars, 1, Len(chars) - 1))
    ELSE chars

\* str.strip()
Strip(chars) == RStrip(LStrip(chars))

\* str.lower()
Lower(chars) ==
    LET upper == Chars("ABCDEFGHIJKLMNOPQRSTUVWXYZ")
        lower == Chars("abcdefghijklmnopqrstuvwxyz")
    IN  [i \in 1..Len(chars) |->
            IF \E j \in 1..Len(upper) : upper[j] = chars[i]
            THEN lower[CHOOSE j \in 1..Len(upper) : upper[j] = chars[i]]
            ELSE chars[i]]

----------------------------------------------------------------------------
(* The value cleaner of export_xlsx_to_jsonl *)

\* the strings the cleaner takes for "no value": ['n.a.', 'na', 'n/a', '']
MeaninglessStrings ==
    { Chars("n.a."), Chars("na"), Chars("n/a"), <<>> }

\* the test without lower(): "N/A" is no longer recognised
IsMeaninglessStringCaseSensitive(v) == v.t = "str" /\ Strip(v.s) \in MeaninglessStrings

\* isinstance(value, str) and value.strip().lower() in ['n.a.', 'na', 'n/a', '']
IsMeaninglessString(v) == v.t = "str" /\ Lower(Strip(v.s)) \in MeaninglessStrings

\* "if pd.isna(value): continue"  inside  try/except (ValueError, TypeError).
\* pd.isna of a scalar is its missingness; of a list it is an array, whose
\* truth value is that of its only element when it has exactly one element
\* (a chain of one-element lists ends in that element) and is otherwise
\* false or a ValueError, which the except clause swallows; of a dict, False.
RECURSIVE PdIsNaSkips(_)
PdIsNaSkips(v) ==
    CASE v.t \in {"none", "nan"} -> TRUE
      [] v.t = "list" -> Len(v.c) = 1 /\ PdIsNaSkips(v.c[1])
      [] OTHER -> FALSE

RECURSIVE remove_nan_and_na_values(_)
RECURSIVE CleanDictItems(_)
RECURSIVE CleanListItems(_)

\* the dict branch testing the value as found, "if value:", instead of the
\* cleaned one, "if cleaned_value:"
RECURSIVE CleanDictItemsUncleanedTest(_)
CleanDictItemsUncleanedTest(items) ==
    IF items = <<>> THEN <<>>
    ELSE LET value == Head(items)
             rest  == CleanDictItemsUncleanedTest(Tail(items))
         IN  IF PdIsNaSkips(value) THEN rest
             ELSE IF IsMeaninglessString(value) THEN rest
             ELSE IF value.t \in {"dict", "list"}
                  THEN IF Truthy(value)
                       THEN <<remove_nan_and_na_values(value)>> \o rest
                       ELSE rest
                  ELSE <<value>> \o rest

\* the loop over data.items() of the dict branch
CleanDictItems(items) ==
    IF items = <<>> THEN <<>>
    ELSE LET value == Head(items)
             rest  == CleanDictItems(Tail(items))
         IN  IF PdIsNaSkips(value) THEN rest
             ELSE IF IsMeaninglessString(value) THEN rest
             ELSE IF value.t \in {"dict", "list"}
                  THEN LET cleaned_value == remove_nan_and_na_values(value)
                       IN  IF Truthy(cleaned_value)
                           THEN <<cleaned_value>> \o rest
                           ELSE rest
                  ELSE <<value>> \o rest

\* the loop over the items of the list branch
CleanListItems(items) ==
    IF items = <<>> THEN <<>>
    ELSE LET item == Head(items)
             rest == CleanListItems(Tail(items))
         IN  IF PdIsNaSkips(item) THEN rest
             ELSE IF IsMeaninglessString(item) THEN rest
             ELSE LET cleaned_item == remove_nan_and_na_values(item)
                  IN  IF /\ cleaned_item.t # "none"
                         /\ ~(cleaned_item.t = "dict" /\ cleaned_item.c = <<>>)
                         /\ ~(cleaned_item.t = "list" /\ cleaned_item.c = <<>>)
                      THEN <<cleaned_item>> \o rest
                      ELSE rest

remove_nan_and_na_values(d) ==
    IF d.t = "dict" THEN [d EXCEPT !.c = CleanDictItems(d.c)]
    ELSE IF d.t = "list" THEN [d EXCEPT !.c = CleanListItems(d.c)]
    ELSE d

----------------------------------------------------------------------------
(* The inputs of the value cleaner *)

\* the longest inner list, and the most keys of an inner mapping
MaxItems == 2

CleanerKeys == <<"a", "b", "c">>

\* a missing value of each kind, a blank string, a placeholder that needs
\* trimming and lower-casing to be recognised, and a value to keep
CleanerLeaves ==
    { PyNone, PyNaN, Str(" "), Str(" N/a "),
      Str("x") }

SeqsUpTo(S, len) == UNION { [1..m -> S] : m \in 0..len }

ListsOf(S, len) == { PyList(items) : items \in SeqsUpTo(S, len) }

\* mappings over the first keys of CleanerKeys, each key present or not
DictsOf(S, len) ==
    { PyDict(SelectSeq([i \in 1..len |-> At(CleanerKeys[i], f[i])],
                       LAMBDA e : e.t # "unset"))
        : f \in [1..len -> S \cup {Unset}] }

\* a value x put one level deeper: [x], [x, l], {p: x}, {p: x, q: l}, with
\* beside it one value to drop or one to keep
Wrapped(S) ==
    LET companions == { PyNaN, Str("x") }
    IN  { PyList(<<x>>) : x \in S }
        \cup { PyList(<<x, l>>) : x \in S, l \in companions }
        \cup { PyDict(<<At("p", x)>>) : x \in S }
        \cup { PyDict(<<At("p", x), At("q", l)>>) : x \in S, l \in companions }

\* lists and mappings nested up to three levels, as the metadata record is
\* (record, section, content, list of strings)
CleanerInputs ==
    LET flat == ListsOf(CleanerLeaves, MaxItems) \cup DictsOf(CleanerLeaves, MaxItems)
        inner == CleanerLeaves \cup flat
    IN  flat \cup Wrapped(inner) \cup Wrapped(Wrapped(inner))

\* the validation_errors dict with no issue
NoIssues ==
    [dataset_info |-> <<>>, participants |-> <<>>, dua |-> <<>>, authors |-> <<>>,
     data_curators |-> <<>>]

\* no validate_metadata call made
NotValidated == [ran |-> FALSE, raised |-> "", validation_errors |-> NoIssues]

\* no export called yet
NoCall == [op |-> "none", skip_validation |-> FALSE, raised |-> ""]

ExportIdle ==
    /\ workbook = Unset
    /\ xml_file = Unset
    /\ jsonl_file = Unset
    /\ export_call = NoCall
    /\ validation = NotValidated

CleanIdle == data = Unset /\ cleaned = Unset /\ recleaned = Unset

CatalogIdle ==
    /\ dataset_jsonl = Unset
    /\ file_list = Unset
    /\ output_file = Unset
    /\ catalog_file = <<>>
    /\ pfm_outcome = "idle"
    /\ pfm_return = Unset
    /\ pfm_runs = 0

\* no exception
NoException == [type |-> "", message |-> <<>>]

PipelineIdle ==
    /\ pd_pc = "idle"
    /\ pd_calls = <<>>
    /\ dataset_pattern = Unset
    /\ validate_result = Unset
    /\ import_result = Unset
    /\ pd_raised = NoException
    /\ pd_return = Unset

NormIdle ==
    /\ cell_value = Unset
    /\ normalizer = "none"
    /\ normalized = Unset
    /\ renormalized = Unset

ListerIdle ==
    /\ directory_path = <<>>
    /\ tree = <<>>
    /\ lister = "none"
    /\ file_info = <<>>

FinderIdle ==
    /\ folder = <<>>
    /\ finder = "none"
    /\ dataset_file = Unset
    /\ fetch_raised = ""

CliIdle ==
    /\ program = "none"
    /\ argv = <<>>
    /\ existing = {}
    /\ exit_code = Unset
    /\ written_files = {}

UcbIdle ==
    /\ ucb_file = <<>>
    /\ ucb_before = <<>>
    /\ ucb_call = [script |-> "none", outcome |-> ""]

SizeIdle ==
    /\ size_file = Unset
    /\ size_before = Unset
    /\ size_return = "none"
    /\ size_updates = 0
    /\ size_calls = 0

SortIdle ==
    /\ children = <<>>
    /\ sorted_children = Unset
    /\ resorted_children = Unset

SearchIdle ==
    /\ cwd = ""
    /\ cwd_found = ""
    /\ fc_pc = "idle"
    /\ fc_args = <<>>
    /\ catalogue = <<>>
    /\ catalogue_found = <<>>
    /\ fc_results = <<>>
    /\ fc_raised = ""

ToolsIdle == CliIdle /\ UcbIdle /\ SizeIdle /\ SortIdle /\ SearchIdle

BesideCliIdle == UcbIdle /\ SizeIdle /\ SortIdle /\ SearchIdle

BesideUcbIdle == CliIdle /\ SizeIdle /\ SortIdle /\ SearchIdle

BesideSizeIdle == CliIdle /\ UcbIdle /\ SortIdle /\ SearchIdle

BesideSortIdle == CliIdle /\ UcbIdle /\ SizeIdle /\ SearchIdle

BesideSearchIdle == CliIdle /\ UcbIdle /\ SizeIdle /\ SortIdle

InitClean ==
    /\ data \in CleanerInputs
    /\ cleaned = Unset
    /\ recleaned = Unset
    /\ CatalogIdle
    /\ ExportIdle
    /\ PipelineIdle
    /\ NormIdle
    /\ ListerIdle
    /\ FinderIdle
    /\ ToolsIdle

\* cleaned_metadata = remove_nan_and_na_values(metadata)
Clean ==
    /\ cleaned = Unset
    /\ cleaned' = remove_nan_and_na_values(data)
    /\ UNCHANGED <<data, recleaned, catalogVars, exportVars, pipelineVars, normVars, listerVars, finderVars, toolVars>>

\* the cleaner run on what it returned
Reclean ==
    /\ cleaned # Unset
    /\ recleaned = Unset
    /\ recleaned' = remove_nan_and_na_values(cleaned)
    /\ UNCHANGED <<data, cleaned, catalogVars, exportVars, pipelineVars, normVars, listerVars, finderVars, toolVars>>

NextClean == Clean \/ Reclean

SpecClean == InitClean /\ [][NextClean]_vars

\* a value the cleaner is meant to remove: null, NaN, a blank string, a
\* placeholder string, an empty list
IsRemovable(v) ==
    \/ v.t \in {"none", "nan"}
    \/ v.t = "str" /\ Lower(Strip(v.s)) \in MeaninglessStrings
    \/ v.t = "list" /\ v.c = <<>>

\* some value inside v, at any depth, is removable
RECURSIVE HoldsRemovable(_)
HoldsRemovable(v) ==
    \E i \in 1..Len(v.c) : IsRemovable(v.c[i]) \/ HoldsRemovable(v.c[i])

\* C6: whatever nested mapping or sequence the cleaner is given, its result
\* holds at no depth a null or NaN, an empty or whitespace-only string, an
\* empty list, or a string that is "n.a.", "na" or "n/a" once trimmed and
\* lower-cased.
C6_CleanedHoldsNothingRemovable ==
    cleaned # Unset => ~HoldsRemovable(cleaned)

\* C6 witness: an input with removable values three levels down, of which
\* the cleaner kept something.
C6_Witness ==
    /\ cleaned # Unset
    /\ cleaned.c # <<>>
    /\ \E i \in 1..Len(data.c) :
          \E j \in 1..Len(data.c[i].c) :
              /\ data.c[i].c[j].t = "list"
              /\ \E m \in 1..Len(data.c[i].c[j].c) : IsRemovable(data.c[i].c[j].c[m])

\* C7: the cleaner is idempotent: cleaning its own result changes nothing.
C7_CleanerIdempotent ==
    recleaned # Unset => recleaned = cleaned

\* C7 witness: the first pass removed something and kept something, and the
\* second pass has run.
C7_Witness ==
    /\ recleaned # Unset
    /\ cleaned # data
    /\ cleaned.c # <<>>

----------------------------------------------------------------------------
(* process_file_metadata: the dataset record and the file entries merged    *)
(* into one catalogue file                                                 *)

\* the characters of the model's strings in code-point order, as sorted()
\* compares them
CharOrder ==
    <<"\t", "\n", "\r", " ", "%", "'", "(", ")", ",", "-", ".", "/",
      "0", "1", "2", "3", "4", "5", "6", "7", "8", "9", ":",
      "A", "B", "C", "D", "E", "F", "G", "H", "I", "J", "K", "L", "M",
      "N", "O", "P", "Q", "R", "S", "T", "U", "V", "W", "X", "Y", "Z",
      "[", "\\", "]", "_",
      "a", "b", "c", "d", "e", "f", "g", "h", "i", "j", "k", "l", "m",
      "n", "o", "p", "q", "r", "s", "t", "u", "v", "w", "x", "y", "z">>

CharRank(ch) == CHOOSE i \in 1..Len(CharOrder) : CharOrder[i] = ch

\* a < b for two str
RECURSIVE StrLess(_, _)
StrLess(a, b) ==
    IF b = <<>> THEN FALSE
    ELSE IF a = <<>> THEN TRUE
    ELSE IF Head(a) = Head(b) THEN StrLess(Tail(a), Tail(b))
    ELSE CharRank(Head(a)) < CharRank(Head(b))

\* one step of sorted(): x put into an ascending list, after its equals
RECURSIVE InsertSorted(_, _)
InsertSorted(x, items) ==
    IF items = <<>> THEN <<x>>
    ELSE IF StrLess(x.s, Head(items).s) THEN <<x>> \o items
    ELSE <<Head(items)>> \o InsertSorted(x, Tail(items))

\* sorted(file_paths)
RECURSIVE Sorted(_)
Sorted(items) ==
    IF items = <<>> THEN <<>>
    ELSE InsertSorted(items[Len(items)], Sorted(SubSeq(items, 1, Len(items) - 1)))

\* str.replace(old, new) for one character
ReplaceChar(chars, old, new) ==
    [i \in 1..Len(chars) |-> IF chars[i] = old THEN new ELSE chars[i]]

\* re.sub(r'//', '/', s): the matches found left to right, not overlapping
RECURSIVE CollapseSlashes(_)
CollapseSlashes(chars) ==
    IF Len(chars) < 2 THEN chars
    ELSE IF chars[1] = "/" /\ chars[2] = "/"
         THEN <<"/">> \o CollapseSlashes(SubSeq(chars, 3, Len(chars)))
         ELSE <<chars[1]>> \o CollapseSlashes(Tail(chars))

\* The object that the line written by _write_jsonl_line parses to.  Of the
\* two re.sub calls, neither pattern matches outside a string; in a string
\* json.dumps writes a backslash as two, which the first pattern turns into
\* a slash; the second pattern then halves double slashes.
RECURSIVE WrittenObject(_)
WrittenObject(v) ==
    IF v.t = "str" THEN [v EXCEPT !.s = CollapseSlashes(ReplaceChar(v.s, "\\", "/"))]
    ELSE IF v.t \in {"list", "dict"}
         THEN [v EXCEPT !.c = [i \in 1..Len(v.c) |-> WrittenObject(v.c[i])]]
         ELSE v

\* the mode in which the dataset line is written: 'a', the file kept
DatasetLineModeAppend == "a"

\* the mode in which the dataset line is written
DatasetLineMode == "w"

\* _write_jsonl_line(filename, json_obj, mode) on the lines of the file
write_jsonl_line(lines, json_obj, mode) ==
    IF mode = "w" THEN <<WrittenObject(json_obj)>>
    ELSE Append(lines, WrittenObject(json_obj))

\* A line of the file holds the text  "metadata_sources":{"sources":  only
\* if json.dumps wrote the key without a space after the colon, which its
\* default separators (', ', ': ') never do, and a quote inside a string is
\* written \", so that no line this program writes holds the text.
HoldsCompactSources(line) == FALSE

\* _fix_metadata_sources(filename): blank lines dropped, the lines holding
\* the compact text rebuilt with the sources in square brackets
fix_metadata_sources(lines) ==
    LET kept == SelectSeq(lines, LAMBDA line : line.t # "unset")
    IN  [i \in 1..Len(kept) |->
            IF HoldsCompactSources(kept[i])
            THEN [kept[i] EXCEPT !.c = [j \in 1..Len(kept[i].c) |->
                    IF kept[i].c[j].k = "metadata_sources"
                    THEN At("metadata_sources",
                            PyDict(<<At("sources", PyList(<<Get(kept[i].c[j], "sources")>>))>>))
                    ELSE kept[i].c[j]]]
            ELSE kept[i]]

\* d[key] = value: in place when the key is there, else added at the end
Put(d, key, value) ==
    IF HasKey(d, key)
    THEN [d EXCEPT !.c = [i \in 1..Len(d.c) |->
                            IF d.c[i].k = key THEN At(key, value) ELSE d.c[i]]]
    ELSE [d EXCEPT !.c = Append(d.c, At(key, value))]

\* value.strip() of a str value
StripValue(v) == [v EXCEPT !.s = Strip(v.s)]

\* {'source_name': ..., 'source_version': ..., 'agent_name': ...}
SourcesOf(source_name, version, agent_name) ==
    PyDict(<<At("source_name", PyStr(source_name)),
             At("source_version", version),
             At("agent_name", PyStr(agent_name))>>)

\* steps 1 and 2 of process_file_metadata: the dataset record with its
\* identifiers trimmed, metadata_sources added if absent, and hasPart
DatasetInfo(loaded, entries, source_name, agent_name) ==
    LET d1 == IF HasKey(loaded, "dataset_id")
              THEN Put(loaded, "dataset_id", StripValue(Get(loaded, "dataset_id")))
              ELSE loaded
        d2 == IF HasKey(d1, "dataset_version")
              THEN Put(d1, "dataset_version", StripValue(Get(d1, "dataset_version")))
              ELSE d1
        d3 == IF ~HasKey(d2, "metadata_sources")
              THEN Put(d2, "metadata_sources",
                       PyDict(<<At("sources",
                                   SourcesOf(source_name,
                                             GetOr(d2, "dataset_version", Str("")),
                                             agent_name))>>))
              ELSE d2
        with_path == SelectSeq(entries, LAMBDA e : HasKey(e, "path"))
        file_paths == [i \in 1..Len(with_path) |->
                         PyStr(ReplaceChar(Get(with_path[i], "path").s, "\\", "/"))]
    IN  Put(d3, "hasPart", PyList(Sorted(file_paths)))

\* float(x) raises ValueError for a str that is no number
FloatRaises(v) == v.t = "str"

\* the item built for one valid file entry, sources wrapped in a list
FileItem(e, clean_dataset_id, clean_dataset_version, source_name, agent_name) ==
    PyDict(<<At("type", Str("file")),
             At("dataset_id", clean_dataset_id),
             At("dataset_version", clean_dataset_version),
             At("path", PyStr(ReplaceChar(Get(e, "path").s, "\\", "/"))),
             At("contentbytesize", PyFloat(Get(e, "contentbytesize").n)),
             At("isPartOf", clean_dataset_id),
             At("metadata_sources",
                PyDict(<<At("sources",
                            PyList(<<SourcesOf(source_name, clean_dataset_version,
                                               agent_name)>>))>>))>>)

IsValidEntry(e) == HasKey(e, "path") /\ HasKey(e, "contentbytesize")

\* step 3: the loop over the entries, appending one line per valid entry
\* until float() raises; [lines, raised]
RECURSIVE AppendFileLines(_, _, _, _, _, _)
AppendFileLines(lines, entries, id, version, source_name, agent_name) ==
    IF entries = <<>> THEN [lines |-> lines, raised |-> FALSE]
    ELSE LET e == Head(entries)
         IN  IF IsValidEntry(e)
             THEN IF FloatRaises(Get(e, "contentbytesize"))
                  THEN [lines |-> lines, raised |-> TRUE]
                  ELSE AppendFileLines(
                           write_jsonl_line(lines,
                               FileItem(e, id, version, source_name, agent_name), "a"),
                           Tail(entries), id, version, source_name, agent_name)
             ELSE AppendFileLines(lines, Tail(entries), id, version,
                                  source_name, agent_name)

\* process_file_metadata on the lines of the output file: [lines, outcome]
process_file_metadata(lines, loaded, entries, source_name, agent_name) ==
    LET dataset_info == DatasetInfo(loaded, entries, source_name, agent_name)
        first == write_jsonl_line(lines, dataset_info, DatasetLineMode)
        clean_dataset_id ==
            StripValue(GetOr(dataset_info, "dataset_id",
                             GetOr(dataset_info, "id", Str(""))))
        clean_dataset_version ==
            StripValue(GetOr(dataset_info, "dataset_version", Str("")))
        looped == AppendFileLines(first, entries, clean_dataset_id,
                                  clean_dataset_version, source_name, agent_name)
    IN  IF looped.raised
        THEN [lines |-> looped.lines, outcome |-> "ValueError"]
        ELSE [lines |-> fix_metadata_sources(looped.lines), outcome |-> "ok"]

\* the output path: the argument, or the dataset name without its spaces
OutputPath(arg, loaded) ==
    IF arg.t = "none"
    THEN PyStr(SelectSeq(Get(loaded, "name").s, LAMBDA ch : ch # " ")
               \o Chars(".jsonl"))
    ELSE arg

----------------------------------------------------------------------------
(* The inputs of process_file_metadata *)

\* the most file entries supplied
MaxFiles == 2

\* the most calls of process_file_metadata on one output file
MaxRuns == 2

\* the entries.  Paths: none, a plain one, one with a doubled slash (which
\* sorts before the plain one), one with a backslash.  Sizes: none, two
\* numbers, a str that is no number.
FileEntries ==
    { PyDict(SelectSeq(<<At("path", p), At("contentbytesize", z)>>,
                       LAMBDA e : e.t # "unset"))
        : p \in { Unset, Str("a/b"), Str("a//c"), Str("a\\c") },
          z \in { Unset, PyNum(5), PyNum(7), Str("x") } }

ExportedSources ==
    PyDict(<<At("sources",
                PyList(<<SourcesOf(<<"I">>, Str("V1"), <<"C">>)>>))>>)

\* the dataset records: as export_xlsx_to_jsonl writes them; with untrimmed
\* identifiers and no metadata_sources; with 'id' for 'dataset_id' and no
\* name; a record that holds a hasPart already
DatasetRecords ==
    { PyDict(<<At("type", Str("dataset")), At("name", Str("PN1 T")),
               At("description", Str("D")),
               At("dataset_id", Str("PN1 T")), At("dataset_version", Str("V1")),
               At("download_url", Str("https://d/PN1")),
               At("metadata_sources", ExportedSources)>>),
      PyDict(<<At("type", Str("dataset")), At("name", Str("PN1 T")),
               At("dataset_id", PyStr(Chars("PN1 T") \o <<" ">>)),
               At("dataset_version", PyStr(Chars("V1") \o <<" ">>))>>),
      PyDict(<<At("type", Str("dataset")), At("id", Str("PN1 T")),
               At("dataset_version", Str("V1"))>>),
      PyDict(<<At("type", Str("dataset")), At("name", Str("PN1 T")),
               At("dataset_id", Str("PN1 T")),
               At("hasPart", PyList(<<Str("old")>>)),
               At("dataset_version", Str("V1"))>>) }

\* an output file left by an earlier catalogue: a dataset line, a file line
StaleCatalog ==
    <<PyDict(<<At("type", Str("dataset")), At("name", Str("old")),
               At("hasPart", PyList(<<Str("old")>>))>>),
      PyDict(<<At("type", Str("file")), At("path", Str("old")),
               At("contentbytesize", PyNum(1))>>)>>

InitCatalog ==
    /\ CleanIdle
    /\ ExportIdle
    /\ PipelineIdle
    /\ NormIdle
    /\ ListerIdle
    /\ FinderIdle
    /\ ToolsIdle
    /\ dataset_jsonl \in DatasetRecords
    /\ file_list \in ListsOf(FileEntries, MaxFiles)
    /\ output_file \in { PyNone, Str("o.j") }
    /\ catalog_file \in { <<>>, StaleCatalog }
    /\ pfm_outcome = "idle"
    /\ pfm_return = Unset
    /\ pfm_runs = 0

\* what a call process_file_metadata(dataset_jsonl, file_list_source,
\* source_name, agent_name, output_file) does, where the dataset JSONL file
\* holds `loaded`; dataset_info['name'] of a record without a name raises
\* KeyError before anything is written
FileMetadataCalled(loaded, entries, output) ==
    /\ pfm_runs' = pfm_runs + 1
    /\ \E source_name \in {Chars("LP")}, agent_name \in {Chars("Pi")} :
        IF output.t = "none" /\ ~HasKey(loaded, "name")
        THEN /\ pfm_outcome' = "KeyError"
             /\ UNCHANGED <<catalog_file, pfm_return>>
        ELSE LET run == process_file_metadata(catalog_file, loaded, entries,
                                              source_name, agent_name)
             IN  /\ catalog_file' = run.lines
                 /\ pfm_outcome' = run.outcome
                 /\ pfm_return' = IF run.outcome = "ok"
                                  THEN OutputPath(output, loaded)
                                  ELSE pfm_return

ProcessFileMetadata ==
    /\ pfm_runs < MaxRuns
    /\ FileMetadataCalled(dataset_jsonl, file_list.c, output_file)
    /\ UNCHANGED <<dataset_jsonl, file_list, output_file, cleanVars, normVars, listerVars, finderVars, toolVars, exportVars,
                   pipelineVars>>

NextCatalog == ProcessFileMetadata

SpecCatalog == InitCatalog /\ [][NextCatalog]_vars

\* the characters of a list of str
CharsOf(items) == [i \in 1..Len(items) |-> items[i].s]

\* a path without its separators
PathNames(chars) == SelectSeq(chars, LAMBDA ch : ch \notin {"/", "\\"})

\* C3: in the file written by process_file_metadata, the dataset line's
\* hasPart is the sorted list of the paths of exactly the file lines that
\* follow it, and every file line's isPartOf is the dataset's trimmed
\* dataset_id.
C3_HasPartIsTheFileLinesPaths ==
    pfm_outcome = "ok" =>
        LET dataset_line == catalog_file[1]
            file_lines == Tail(catalog_file)
        IN  /\ CharsOf(Get(dataset_line, "hasPart").c)
                 = CharsOf(Sorted([i \in 1..Len(file_lines) |->
                                      Get(file_lines[i], "path")]))
            /\ HasKey(dataset_line, "dataset_id") =>
                 \A i \in 1..Len(file_lines) :
                     Get(file_lines[i], "isPartOf").s
                         = Strip(Get(dataset_line, "dataset_id").s)

\* C4: the catalogue file holds exactly one dataset record, its first line,
\* followed by one line per valid file entry in the order supplied; also
\* when the output file existed before the call.
C4_DatasetLineThenFilesInOrder ==
    /\ pfm_outcome \in {"ok", "ValueError"} =>
         /\ Len(catalog_file) >= 1
         /\ Get(catalog_file[1], "type").s = Chars("dataset")
         /\ \A i \in 2..Len(catalog_file) : Get(catalog_file[i], "type").s = Chars("file")
    /\ pfm_outcome = "ok" =>
         LET valid == SelectSeq(file_list.c, IsValidEntry)
             file_lines == Tail(catalog_file)
         IN  /\ Len(file_lines) = Len(valid)
             /\ \A i \in 1..Len(valid) :
                  /\ Get(file_lines[i], "contentbytesize").n
                       = Get(valid[i], "contentbytesize").n
                  /\ PathNames(Get(file_lines[i], "path").s)
                       = PathNames(Get(valid[i], "path").s)

\* C4 witness: a second call on the file the first call wrote, two file
\* lines kept in the order supplied though that order is not ascending.
C4_Witness ==
    /\ pfm_runs = 2
    /\ pfm_outcome = "ok"
    /\ Len(catalog_file) = 3
    /\ StrLess(Get(catalog_file[3], "path").s, Get(catalog_file[2], "path").s)
    /\ Get(catalog_file[2], "contentbytesize").n # Get(catalog_file[3], "contentbytesize").n

----------------------------------------------------------------------------
(* More str methods *)

\* chars.startswith(prefix)
StartsWith(chars, prefix) ==
    Len(chars) >= Len(prefix) /\ SubSeq(chars, 1, Len(prefix)) = prefix

\* the places of chars at which sub stands
Places(chars, sub) ==
    {i \in 1..(Len(chars) - Len(sub) + 1) : SubSeq(chars, i, i + Len(sub) - 1) = sub}

\* sub in chars
Contains(chars, sub) == Places(chars, sub) # {}

\* chars.replace(old, new), old not empty: the matches found left to right,
\* not overlapping (re.sub of a literal pattern does the same)
RECURSIVE ReplaceAll(_, _, _)
ReplaceAll(chars, old, new) ==
    IF ~Contains(chars, old) THEN chars
    ELSE LET at == CHOOSE i \in Places(chars, old) : \A j \in Places(chars, old) : i <= j
         IN  SubSeq(chars, 1, at - 1) \o new
                 \o ReplaceAll(SubSeq(chars, at + Len(old), Len(chars)), old, new)

\* re.sub(ch+, ch, chars): every run of the character ch cut to one, a pair
\* of them cut to one until there is no pair
RECURSIVE SqueezeRuns(_, _)
SqueezeRuns(chars, ch) ==
    IF Contains(chars, <<ch, ch>>)
    THEN SqueezeRuns(ReplaceAll(chars, <<ch, ch>>, <<ch>>), ch)
    ELSE chars

\* chars.split(sep) for a one-character sep: the pieces, empty ones kept
RECURSIVE SplitOn(_, _)
SplitOn(chars, sep) ==
    IF \A i \in 1..Len(chars) : chars[i] # sep THEN <<chars>>
    ELSE LET at == CHOOSE i \in 1..Len(chars) :
                       chars[i] = sep /\ \A j \in 1..(i - 1) : chars[j] # sep
         IN  <<SubSeq(chars, 1, at - 1)>>
                 \o SplitOn(SubSeq(chars, at + 1, Len(chars)), sep)

\* chars.split(): the pieces between runs of whitespace, none of them empty
RECURSIVE SplitWhitespace(_)
SplitWhitespace(chars) ==
    LET rest == LStrip(chars)
    IN  IF rest = <<>> THEN <<>>
        ELSE IF \A i \in 1..Len(rest) : rest[i] \notin Whitespace THEN <<rest>>
        ELSE LET at == CHOOSE i \in 1..Len(rest) :
                           rest[i] \in Whitespace
                           /\ \A j \in 1..(i - 1) : rest[j] \notin Whitespace
             IN  <<SubSeq(rest, 1, at - 1)>>
                     \o SplitWhitespace(SubSeq(rest, at + 1, Len(rest)))

\* sep.join(parts)
RECURSIVE Join(_, _)
Join(parts, sep) ==
    IF parts = <<>> THEN <<>>
    ELSE IF Len(parts) = 1 THEN parts[1]
    ELSE parts[1] \o sep \o Join(Tail(parts), sep)

\* str(i) for an int i >= 0
RECURSIVE IntToChars(_)
IntToChars(i) ==
    IF i < 10 THEN <<Chars("0123456789")[i + 1]>>
    ELSE IntToChars(i \div 10) \o <<Chars("0123456789")[(i % 10) + 1]>>

\* str(value) of a scalar; a float is one with a whole value, as a
\* spreadsheet gives for a number typed without decimals
StrOf(v) ==
    CASE v.t = "str"   -> v.s
      [] v.t = "num"   -> IntToChars(v.n)
      [] v.t = "float" -> IntToChars(v.n) \o Chars(".0")
      [] v.t = "nan"   -> Chars("nan")
      [] OTHER         -> Chars("None")

\* pd.isna(value) of a scalar
IsNa(v) == v.t \in {"none", "nan"}

----------------------------------------------------------------------------
(* The normalizers of export_xlsx.py *)

extract_doi_suffix(doi_value) ==
    IF IsNa(doi_value) \/ ~Truthy(doi_value) THEN Chars("XXXX")
    ELSE LET doi_str == Strip(StrOf(doi_value))
             parts == SplitOn(doi_str, "/")
         IN  IF ~Contains(doi_str, <<"/">>) THEN doi_str
             ELSE IF parts[Len(parts)] # <<>> THEN parts[Len(parts)] ELSE Chars("XXXX")

\* while version_str.startswith('VV'): version_str = version_str[1:]
DropOneExtraV(version_str) ==
    IF StartsWith(version_str, Chars("VV")) THEN Tail(version_str) ELSE version_str

RECURSIVE DropExtraV(_)
DropExtraV(version_str) ==
    IF StartsWith(version_str, Chars("VV")) THEN DropExtraV(Tail(version_str))
    ELSE version_str

format_version(version_value) ==
    IF IsNa(version_value) \/ ~Truthy(version_value) THEN Chars("VNone")
    ELSE LET version_str == Strip(StrOf(version_value))
         IN  IF StartsWith(version_str, <<"V">>) THEN DropExtraV(version_str)
             ELSE <<"V">> \o version_str

\* [item.strip() for item in pieces if item.strip()]
NonEmptyUnstripped(pieces) == SelectSeq(pieces, LAMBDA p : Strip(p) # <<>>)

StrippedNonEmpty(pieces) ==
    SelectSeq([i \in 1..Len(pieces) |-> Strip(pieces[i])], LAMBDA p : p # <<>>)

parse_keywords(keywords_value) ==
    IF ~Truthy(keywords_value) \/ IsNa(keywords_value) THEN <<>>
    ELSE LET keywords_str == Strip(StrOf(keywords_value))
         IN  IF keywords_str = <<>> THEN <<>>
             ELSE IF Contains(keywords_str, <<",">>)
                  THEN StrippedNonEmpty(SplitOn(keywords_str, ","))
                  ELSE StrippedNonEmpty(SplitWhitespace(keywords_str))

parse_bids_datatypes(bids_value) ==
    IF ~Truthy(bids_value) \/ IsNa(bids_value) THEN <<>>
    ELSE LET bids_str == Strip(StrOf(bids_value))
         IN  IF bids_str = <<>> THEN <<>>
             ELSE IF Contains(bids_str, <<",">>)
                  THEN StrippedNonEmpty(SplitOn(bids_str, ","))
                  ELSE StrippedNonEmpty(SplitWhitespace(bids_str))

\* the rules of the docstring: 'raw' when the value holds raw
RawFirstDatasetType(dataset_type_value) ==
    IF ~Truthy(dataset_type_value) \/ IsNa(dataset_type_value) THEN Chars("raw")
    ELSE LET type_str == Strip(Lower(StrOf(dataset_type_value)))
         IN  IF Contains(type_str, Chars("raw")) \/ ~Contains(type_str, Chars("deriv"))
             THEN Chars("raw")
             ELSE Chars("derivatives")

parse_bids_dataset_type(dataset_type_value) ==
    IF ~Truthy(dataset_type_value) \/ IsNa(dataset_type_value) THEN Chars("raw")
    ELSE LET type_str == Strip(Lower(StrOf(dataset_type_value)))
         IN  IF \/ Contains(type_str, Chars("deriv"))
                \/ Contains(type_str, Chars("processed"))
                \/ Contains(type_str, Chars("derived"))
             THEN Chars("derivatives")
             ELSE Chars("raw")

----------------------------------------------------------------------------
(* parse_excel_metadata: the workbook, as pandas reads it, to the metadata  *)
(* dict.  A workbook is aux_dict: a dict of sheet name -> list of records,  *)
(* a record being a dict of column name -> cell; an empty cell is NaN.      *)

\* i.get(column): None when the record has no such column
Cell(row, column) == GetOr(row, column, PyNone)

\* the dict of given and family name made of a full name
NameParts(name_parts, family_parts) ==
    PyDict(<< At("givenName", PyStr(IF Len(name_parts) > 0 THEN name_parts[1] ELSE <<>>)),
              At("familyName", PyStr(IF Len(name_parts) > 1
                                     THEN Join(family_parts, Chars(" ")) ELSE <<>>)) >>)

\* the loop over the rows of the authors sheet
RECURSIVE AuthorsOf(_)
AuthorsOf(rows) ==
    IF rows = <<>> THEN <<>>
    ELSE LET cell == Cell(Head(rows), "# Metadata record for PublicnEUro")
             full_name == Strip(StrOf(cell))
             name_parts == SplitOn(full_name, " ")
         IN  IF IsNa(cell) THEN AuthorsOf(Tail(rows))
             ELSE IF full_name # <<>> /\ full_name # Chars("nan")
                  THEN <<NameParts(name_parts, Tail(name_parts))>> \o AuthorsOf(Tail(rows))
                  ELSE AuthorsOf(Tail(rows))

\* the loop over the rows of the funding sheet
RECURSIVE FundingOf(_)
FundingOf(rows) ==
    IF rows = <<>> THEN <<>>
    ELSE LET i == Head(rows)
         IN  IF IsNa(Cell(i, "# Metadata record for PublicnEUro")) THEN FundingOf(Tail(rows))
             ELSE << PyDict(<< At("name", Get(i, "# Metadata record for PublicnEUro")),
                               At("identifier", GetOr(i, "Unnamed: 1", PyStr(<<>>))) >>) >>
                      \o FundingOf(Tail(rows))

\* the loop over the rows of the publications sheet
RECURSIVE PublicationsOf(_)
PublicationsOf(rows) ==
    IF rows = <<>> THEN <<>>
    ELSE LET i == Head(rows)
             author_name == StrOf(GetOr(i, "Unnamed: 2", PyStr(<<>>)))
             name_parts == SplitOn(author_name, " ")
         IN  IF IsNa(Cell(i, "# Metadata record for PublicnEUro")) THEN PublicationsOf(Tail(rows))
             ELSE << PyDict(<<
                        At("type", Str("academic publication")),
                        At("title", Get(i, "# Metadata record for PublicnEUro")),
                        At("datePublished", PyStr(StrOf(GetOr(i, "Unnamed: 1", PyStr(<<>>))))),
                        At("doi", GetOr(i, "Unnamed: 3", PyStr(<<>>))),
                        At("authors", PyList(<<
                            NameParts(name_parts,
                                      IF Contains(author_name, Chars("et al."))
                                      THEN SubSeq(name_parts, 2, Len(name_parts) - 2)
                                      ELSE Tail(name_parts)) >>)) >>) >>
                      \o PublicationsOf(Tail(rows))

\* str(value) if isinstance(value, int) else value
IntAsStr(value) == IF value.t = "num" THEN PyStr(IntToChars(value.n)) ELSE value

\* participants_aux, as the sequence of its assignments [key, value]
RECURSIVE ParticipantsAux(_)
ParticipantsAux(rows) ==
    IF rows = <<>> THEN <<>>
    ELSE LET info == Head(rows)
             value == Cell(info, "Unnamed: 1")
         IN  IF ~IsNa(Cell(info, "Group level information")) /\ ~IsNa(value)
             THEN <<[key |-> Get(info, "Group level information"), value |-> IntAsStr(value)]>>
                      \o ParticipantsAux(Tail(rows))
             ELSE ParticipantsAux(Tail(rows))

\* metadata_aux, as the sequence of its assignments [key, value]
RECURSIVE MetadataAux(_)
MetadataAux(rows) ==
    IF rows = <<>> THEN <<>>
    ELSE LET info == Head(rows)
             key_field == Cell(info, "# Metadata record for PublicnEUro\n# BOLD field are mandatory")
             key == Strip(ReplaceAll(StrOf(key_field), <<"\n">>, <<>>))
             value == Cell(info, "values")
         IN  IF IsNa(key_field) \/ IsNa(value) THEN MetadataAux(Tail(rows))
             ELSE <<[key |-> PyStr(key), value |-> IntAsStr(value)]>>
                      \o MetadataAux(Tail(rows))

\* aux.get(key, default): the value assigned last
AuxGet(aux, key, default) ==
    IF \E i \in 1..Len(aux) : aux[i].key = PyStr(key)
    THEN aux[CHOOSE i \in 1..Len(aux) :
                 /\ aux[i].key = PyStr(key)
                 /\ \A j \in (i + 1)..Len(aux) : aux[j].key # PyStr(key)].value
    ELSE default

\* [v for v in value if v is not None and str(v).strip() != '' and
\*  str(v).strip() not in meaningless]
MeaningfulItems(items, meaningless) ==
    SelectSeq(items, LAMBDA v : /\ v.t # "none"
                                /\ Strip(StrOf(v)) # <<>>
                                /\ Strip(StrOf(v)) \notin meaningless)

\* the entries of the dict that filter_empty_values keeps
RECURSIVE FilterEmptyItems(_)
FilterEmptyItems(items) ==
    IF items = <<>> THEN <<>>
    ELSE LET value == Head(items)
             filtered_list == MeaningfulItems(value.c, {Chars("[]")})
             rest == FilterEmptyItems(Tail(items))
         IN  IF value.t = "list"
             THEN IF filtered_list # <<>>
                  THEN <<[value EXCEPT !.c = filtered_list]>> \o rest
                  ELSE rest
             ELSE IF /\ value.t # "none"
                     /\ (value.t = "dict" \/ Strip(StrOf(value)) \notin {<<>>, Chars("[]")})
                  THEN <<value>> \o rest
                  ELSE rest

filter_empty_values(data_dict) == PyDict(FilterEmptyItems(data_dict.c))

\* the entries of the dict that clean_metadata_content keeps
RECURSIVE CleanContentItems(_)
CleanContentItems(items) ==
    IF items = <<>> THEN <<>>
    ELSE LET value == Head(items)
             cleaned_list == MeaningfulItems(value.c, {Chars("[]"), Chars("BIDS version")})
             rest == CleanContentItems(Tail(items))
         IN  IF value.t = "none" THEN rest
             ELSE IF value.t = "list"
                  THEN IF cleaned_list # <<>>
                       THEN <<[value EXCEPT !.c = cleaned_list]>> \o rest
                       ELSE rest
             ELSE IF value.t = "str" /\ Strip(value.s) \in {<<>>, Chars("[]"), Chars("BIDS version")}
                  THEN rest
             ELSE <<value>> \o rest

clean_metadata_content(content_dict) == PyDict(CleanContentItems(content_dict.c))

\* a list of str
StrList(pieces) == PyList([i \in 1..Len(pieces) |-> PyStr(pieces[i])])

handle_values(value) ==
    IF IsNa(value) THEN PyNone
    ELSE IF value.t = "str"
         THEN LET items == SplitOn(value.s, ",")
              IN  StrList([i \in 1..Len(items) |-> Strip(items[i])])
         ELSE StrList(<<StrOf(value)>>)

clean_text_for_jsonl(text, preserve_line_breaks) ==
    IF IsNa(text) \/ ~Truthy(text) THEN <<>>
    ELSE LET text_str == Strip(StrOf(text))
             kept == ReplaceAll(ReplaceAll(text_str, Chars("\r\n"), <<"\n">>),
                                <<"\r">>, <<"\n">>)
             periods == ReplaceAll(ReplaceAll(ReplaceAll(text_str,
                                   Chars("\r\n"), Chars(". ")),
                                   <<"\n">>, Chars(". ")),
                                   <<"\r">>, Chars(". "))
             Plain(t) == ReplaceAll(ReplaceAll(t, <<"\"">>, <<"'">>), <<"\t">>, <<" ">>)
         IN  IF preserve_line_breaks
             THEN Strip(SqueezeRuns(Plain(kept), " "))
             ELSE Strip(SqueezeRuns(SqueezeRuns(Plain(periods), "."), " "))

\* [participants_aux.get(key, '')]
OneOf(participants_aux, key) == PyList(<<AuxGet(participants_aux, key, PyStr(<<>>))>>)

\* participants_aux.get('Age range [min max]', '').replace(" ", ", ") raises
\* AttributeError when the cell holds a number: a float has no replace
AgeRangeRaises(participants_aux) ==
    participants_aux # <<>> /\ AuxGet(participants_aux, Chars("Age range [min max]"), PyStr(<<>>)).t # "str"

ParticipantsOf(participants_aux) ==
    PyDict(<<
        At("name", Str("Participants")),
        At("content",
           IF participants_aux # <<>>
           THEN filter_empty_values(PyDict(<<
                    At("total_number", OneOf(participants_aux, Chars("Number of subjects"))),
                    At("age_range", PyList(<<PyStr(ReplaceAll(
                        AuxGet(participants_aux, Chars("Age range [min max]"), PyStr(<<>>)).s,
                        <<" ">>, Chars(", ")))>>)),
                    At("number_of_healthy", OneOf(participants_aux, Chars("Number of Healthy Controls"))),
                    At("number_of_patients", OneOf(participants_aux, Chars("Number of Patients"))),
                    At("number_of_biological_males", OneOf(participants_aux, Chars("Number of biological males"))),
                    At("number_of_biological_females", OneOf(participants_aux, Chars("Number of biological females")))
                >>))
           ELSE PyDict(<<>>)) >>)

\* handle_values(metadata_aux.get(key))
Handled(metadata_aux, key) == handle_values(AuxGet(metadata_aux, key, PyNone))

DetailedMetadataOf(metadata_aux) ==
    PyDict(<<
        At("name", Str("Dataset Metadata")),
        At("content", clean_metadata_content(PyDict(<<
            At("bids_version", Handled(metadata_aux, Chars("BIDS version"))),
            At("bids_datasettype", PyStr(parse_bids_dataset_type(
                AuxGet(metadata_aux, Chars("BIDS Dataset type"), PyNone)))),
            At("bids_datatypes", StrList(parse_bids_datatypes(
                AuxGet(metadata_aux, Chars("BIDS data type"), PyNone)))),
            At("NCBI Species Taxonomy", Handled(metadata_aux, Chars("NCBI Species Taxonomy"))),
            At("Disease Ontology Name", Handled(metadata_aux, Chars("Disease Ontology Name"))),
            At("Disease Ontology ID", Handled(metadata_aux, Chars("Disease Ontology ID "))),
            At("SNOMED ID", Handled(metadata_aux, Chars("SNOMED ID"))),
            At("SNOMED label", Handled(metadata_aux, Chars("SNOMED label"))),
            At("Cognitive Atlas concept", Handled(metadata_aux, Chars("Cognitive Atlas concept(s)"))),
            At("Cognitive Atlas task", Handled(metadata_aux, Chars("Cognitive Atlas task(s)"))) >>))) >>)

\* [clean] when the cell holds text that is not empty once cleaned, else []
DuaCell(rows, row, preserve_line_breaks) ==
    LET value == rows[row].c[2]
        clean == clean_text_for_jsonl(value, preserve_line_breaks)
    IN  IF /\ Len(rows) >= row
           /\ Len(rows[1].c) > 1
           /\ ~IsNa(value)
           /\ Strip(StrOf(value)) # <<>>
           /\ clean # <<>>
        THEN StrList(<<clean>>)
        ELSE PyList(<<>>)

DuaContentOf(aux_dict) ==
    LET read == HasKey(aux_dict, "DUA") /\ Len(Get(aux_dict, "DUA").c) >= 2
        rows == Get(aux_dict, "DUA").c
    IN  PyDict(<<
            At("name", Str("DUA terms")),
            At("content", PyDict(<<
                At("Restrictions", IF read THEN DuaCell(rows, 1, FALSE) ELSE PyList(<<>>)),
                At("Terms", IF read THEN DuaCell(rows, 2, TRUE) ELSE PyList(<<>>)) >>)) >>)

\* the loop over the rows of the dataset curators sheet
RECURSIVE SourcesOfCurators(_, _)
SourcesOfCurators(rows, metadata_aux) ==
    IF rows = <<>> THEN <<>>
    ELSE LET info == Head(rows)
         IN  IF IsNa(Cell(info, "# Metadata record for PublicnEUro")) THEN SourcesOfCurators(Tail(rows), metadata_aux)
             ELSE << PyDict(<<
                        At("source_name", GetOr(info, "Unnamed: 1", PyStr(<<>>))),
                        At("source_version", PyStr(format_version(
                            AuxGet(metadata_aux, Chars("dataset version"), Str("None"))))),
                        At("agent_name", Get(info, "# Metadata record for PublicnEUro")) >>) >>
                      \o SourcesOfCurators(Tail(rows), metadata_aux)

\* the rows of a sheet after its two heading rows, none when it is missing
RowsOf(aux_dict, sheet_name) ==
    IF HasKey(aux_dict, sheet_name) THEN SubSeq(Get(aux_dict, sheet_name).c, 3, Len(Get(aux_dict, sheet_name).c))
    ELSE <<>>

\* every row of a sheet, none when it is missing
AllRowsOf(aux_dict, sheet_name) ==
    IF HasKey(aux_dict, sheet_name) THEN Get(aux_dict, sheet_name).c ELSE <<>>

\* [raised, metadata]: the exception the parse ends in, "" when it returns,
\* and the dict it returns
parse_excel_metadata(aux_dict) ==
    LET participants_aux == ParticipantsAux(AllRowsOf(aux_dict, "participants_info"))
        metadata_aux == MetadataAux(AllRowsOf(aux_dict, "dataset_info"))
        pn_id == AuxGet(metadata_aux, Chars("PN ID"), Str("PN000000"))
        title == AuxGet(metadata_aux, Chars("title"), Str("Unknown Dataset"))
        version_raw == AuxGet(metadata_aux, Chars("dataset version"), Str("None"))
        url_dataset == StrOf(pn_id) \o Chars(" ") \o StrOf(title)
    IN  IF AgeRangeRaises(participants_aux)
        THEN [raised |-> "AttributeError", metadata |-> PyNone]
        ELSE [raised |-> "",
              metadata |-> PyDict(<<
                At("authors", PyList(AuthorsOf(RowsOf(aux_dict, "authors")))),
                At("description", AuxGet(metadata_aux, Chars("description"), Str("No description available"))),
                At("title", title),
                At("subtitle", PyStr(url_dataset)),
                At("doi", PyStr(Chars("10.70883/") \o extract_doi_suffix(
                                    AuxGet(metadata_aux, Chars("DOI"), Str("XXXX"))))),
                At("id", pn_id),
                At("download_url", PyStr(ReplaceAll(
                    Chars("https://datacatalog.publicneuro.eu/dataset/") \o url_dataset \o <<"/">> \o format_version(version_raw),
                    <<" ">>, Chars("%20")))),
                At("name", PyStr(url_dataset)),
                At("funding", PyList(FundingOf(RowsOf(aux_dict, "funding")))),
                At("publications", PyList(PublicationsOf(RowsOf(aux_dict, "publications")))),
                At("participants", ParticipantsOf(participants_aux)),
                At("detailed_metadata", DetailedMetadataOf(metadata_aux)),
                At("dua_content", DuaContentOf(aux_dict)),
                At("metadata_sources", PyDict(<<
                    At("sources", PyList(SourcesOfCurators(
                        RowsOf(aux_dict, "dataset curators"), metadata_aux))) >>)),
                At("keywords", StrList(parse_keywords(
                    AuxGet(metadata_aux, Chars("Keywords"), PyStr(<<>>))))),
                At("dataset_version", PyStr(format_version(version_raw))),
                At("license", PyDict(<<At("name", Str("Data User Agreement"))>>)),
                At("type", Str("dataset")) >>)]

----------------------------------------------------------------------------
(* validate_metadata *)

\* <<issue>> when the test of a mandatory field fails
Issue(failed, issue) == IF failed THEN <<issue>> ELSE <<>>

\* metadata.get(section, {}).get('content', {})
ContentOf(metadata, section) == GetOr(GetOr(metadata, section, PyDict(<<>>)), "content", PyDict(<<>>))

\* the issues of category (1)
DatasetInfoIssues(metadata) ==
    LET title == GetOr(metadata, "title", PyNone)
        description == GetOr(metadata, "description", PyNone)
        dataset_version == GetOr(metadata, "dataset_version", PyNone)
        detailed_metadata == ContentOf(metadata, "detailed_metadata")
        bids_version == GetOr(detailed_metadata, "bids_version", PyNone)
    IN  Issue(~Truthy(title) \/ Strip(StrOf(title)) = Chars("Unknown Dataset"), "title")
        \o Issue(~Truthy(description) \/ Strip(StrOf(description)) = Chars("No description available"),
                 "description")
        \o Issue(~Truthy(GetOr(metadata, "keywords", PyNone)), "Keywords")
        \o Issue(~Truthy(dataset_version) \/ Strip(StrOf(dataset_version)) \in {Chars("VNone"), Chars("V")},
                 "dataset version")
        \o Issue(~Truthy(GetOr(detailed_metadata, "bids_datasettype", PyNone)),
                 "BIDS Dataset type")
        \o Issue(\/ ~Truthy(bids_version)
                 \/ /\ bids_version.t = "list"
                    /\ \/ ~Truthy(bids_version.c[1])
                       \/ bids_version.c[1] = Str("BIDS version"),
                 "BIDS version")
        \o Issue(~Truthy(GetOr(detailed_metadata, "bids_datatypes", PyNone)),
                 "BIDS data type")

\* the issues of category (2)
ParticipantsIssues(metadata) ==
    LET total_subjects == GetOr(ContentOf(metadata, "participants"), "total_number",
                                PyList(<<PyStr(<<>>)>>))
    IN  Issue(\/ ~Truthy(total_subjects)
              \/ ~Truthy(total_subjects.c[1])
              \/ Strip(StrOf(total_subjects.c[1])) = <<>>,
              "Number of subjects")

\* the issues of category (3)
DuaIssues(metadata) ==
    LET dua_content == ContentOf(metadata, "dua_content")
        restrictions == GetOr(dua_content, "Restrictions", PyList(<<>>))
        terms == GetOr(dua_content, "Terms", PyList(<<>>))
    IN  IF ~Truthy(dua_content) THEN <<"DUA content not found">>
        ELSE IF ~Truthy(restrictions) THEN <<"Restrictions must be selected">>
        ELSE Issue(/\ restrictions.c[1] # Str("None (CCBY)")
                   /\ (~Truthy(terms) \/ Strip(terms.c[1].s) = <<>>),
                   "Terms must have a value (unless restriction is 'None (CCBY)')")

\* the issues of category (4); has_valid_author is what the loop over the
\* authors leaves
AuthorsIssues(metadata) ==
    LET authors == GetOr(metadata, "authors", PyList(<<>>))
        has_valid_author ==
            \E i \in 1..Len(authors.c) :
                \/ Strip(GetOr(authors.c[i], "givenName", PyStr(<<>>)).s) # <<>>
                \/ Strip(GetOr(authors.c[i], "familyName", PyStr(<<>>)).s) # <<>>
    IN  IF ~Truthy(authors) THEN <<"At least 1 author name is required">>
        ELSE Issue(~has_valid_author, "At least 1 author must have a name")

\* the loop over the curators: "valid" at the first one with a name and an
\* institution, "invalid" when there is none, "AttributeError" when the loop
\* reaches a name or an institution that is no str (.strip() of a float)
RECURSIVE CuratorLoop(_)
CuratorLoop(sources) ==
    IF sources = <<>> THEN "invalid"
    ELSE LET agent_name == GetOr(Head(sources), "agent_name", PyStr(<<>>))
             source_name == GetOr(Head(sources), "source_name", PyStr(<<>>))
         IN  IF agent_name.t # "str" \/ source_name.t # "str" THEN "AttributeError"
             ELSE IF Strip(agent_name.s) # <<>> /\ Strip(source_name.s) # <<>> THEN "valid"
             ELSE CuratorLoop(Tail(sources))

\* metadata.get('metadata_sources', {}).get('sources', [])
CuratorSources(metadata) ==
    GetOr(GetOr(metadata, "metadata_sources", PyDict(<<>>)), "sources", PyList(<<>>))

\* the issues of category (5), given how the loop over the curators ended
CuratorsIssues(metadata, loop) ==
    IF ~Truthy(CuratorSources(metadata))
    THEN <<"At least 1 curator name and 1 institution is required">>
    ELSE Issue(loop = "invalid", "At least 1 curator must have both name and institution")

\* [ran, raised, validation_errors]: that the call was made, the exception
\* validate_metadata ends in, "" when it returns, and the dict it returns
validate_metadata(metadata) ==
    LET loop == CuratorLoop(CuratorSources(metadata).c)
    IN  IF Truthy(CuratorSources(metadata)) /\ loop = "AttributeError"
        THEN [ran |-> TRUE, raised |-> "AttributeError", validation_errors |-> NoIssues]
        ELSE [ran |-> TRUE, raised |-> "",
              validation_errors |->
                  [dataset_info  |-> DatasetInfoIssues(metadata),
                   participants  |-> ParticipantsIssues(metadata),
                   dua           |-> DuaIssues(metadata),
                   authors       |-> AuthorsIssues(metadata),
                   data_curators |-> CuratorsIssues(metadata, loop)]]

\* sum(len(errors) for errors in validation_errors.values())
total_errors(validation_errors) ==
    Len(validation_errors.dataset_info) + Len(validation_errors.participants)
        + Len(validation_errors.dua) + Len(validation_errors.authors)
        + Len(validation_errors.data_curators)

\* the strict path stopping at one issue more than it does
ValidationFailedAboveOne(validation_errors) == total_errors(validation_errors) > 1

\* "if total_errors > 0: raise ValueError(error_msg)"
ValidationFailed(validation_errors) == total_errors(validation_errors) > 0

----------------------------------------------------------------------------
(* export_xlsx_to_xml, export_xlsx_to_jsonl, export_xlsx_to_both *)

\* metadata["title"] + " Data" and the serialisation of the element texts
\* raise TypeError when the title or the description is no str
XmlRaises(metadata) ==
    Get(metadata, "title").t # "str" \/ Get(metadata, "description").t # "str"

\* seq, were every contributor the first
SequenceAlwaysFirst(first) == Str("first")

\* seq = "first" if first else "additional"
SequenceOf(first) == IF first THEN Str("first") ELSE Str("additional")

\* the texts the export sets in the CrossRef template (the fixed parts of
\* the template and the date of the run are not held)
XmlDocument(metadata) ==
    LET authors == Get(metadata, "authors").c
        \* the person_name elements put under contributors
        person_names ==
            [i \in 1..Len(authors) |->
                PyDict(<< At("sequence", SequenceOf(i = 1)),
                          At("contributor_role", Str("author")),
                          At("given_name", Get(authors[i], "givenName")),
                          At("surname", Get(authors[i], "familyName")) >>)]
    IN  PyDict(<< At("subtitle", Get(metadata, "subtitle")),
                  At("doi", Get(metadata, "doi")),
                  At("resource", Get(metadata, "download_url")),
                  At("description", Get(metadata, "description")),
                  At("title", PyStr(Get(metadata, "title").s \o Chars(" Data"))),
                  At("contributors", PyList(person_names)) >>)

\* cleaned_authors of clean_jsonl_structure
CleanedAuthors(authors) ==
    SelectSeq(authors, LAMBDA author :
        /\ author.t = "dict"
        /\ \/ Strip(GetOr(author, "givenName", PyStr(<<>>)).s) # <<>>
           \/ Strip(GetOr(author, "familyName", PyStr(<<>>)).s) # <<>>)

\* cleaned_sections, were every section that is a dict kept
CleanedSectionsAnyDict(sections) ==
    SelectSeq(sections, LAMBDA section : section.t = "dict")

\* cleaned_sections of clean_jsonl_structure
CleanedSections(sections) ==
    SelectSeq(sections, LAMBDA section :
        /\ section.t = "dict"
        /\ Truthy(GetOr(section, "content", PyNone))
        /\ Len(Get(section, "content").c) > 0)

\* the loop over data.items() of clean_jsonl_structure
RECURSIVE CleanStructureItems(_)
CleanStructureItems(items) ==
    IF items = <<>> THEN <<>>
    ELSE LET value == Head(items)
             key == value.k
             rest == CleanStructureItems(Tail(items))
         IN  IF value.t = "none" THEN rest
             ELSE IF value.t = "list"
                  THEN IF key \in {"keywords", "funding", "publications"} /\ Len(value.c) = 0
                       THEN rest
                       ELSE IF key = "authors"
                            THEN IF CleanedAuthors(value.c) # <<>>
                                 THEN <<[value EXCEPT !.c = CleanedAuthors(value.c)]>> \o rest
                                 ELSE rest
                       ELSE IF key = "additional_display"
                            THEN IF CleanedSections(value.c) # <<>>
                                 THEN <<[value EXCEPT !.c = CleanedSections(value.c)]>> \o rest
                                 ELSE rest
                       ELSE <<value>> \o rest
             ELSE IF value.t = "str" /\ Strip(value.s) = <<>> THEN rest
             ELSE <<value>> \o rest

clean_jsonl_structure(d) == PyDict(CleanStructureItems(d.c))

\* cleaned_metadata.get(from, default), were it left under the key it has in
\* the record parsed
TakenUnderItsKey(key, cleaned_metadata, from, default) ==
    At(from, GetOr(cleaned_metadata, from, default))

\* key: cleaned_metadata.get(from, default)
Taken(key, cleaned_metadata, from, default) == At(key, GetOr(cleaned_metadata, from, default))

\* jsonl_data, the object of the one line written
JsonlData(metadata) ==
    LET cleaned_metadata == remove_nan_and_na_values(metadata)
    IN  clean_jsonl_structure(PyDict(<<
            Taken("type", cleaned_metadata, "type", Str("dataset")),
            Taken("name", cleaned_metadata, "title", PyStr(<<>>)),
            Taken("description", cleaned_metadata, "description", PyStr(<<>>)),
            Taken("dataset_id", cleaned_metadata, "name", PyStr(<<>>)),
            Taken("dataset_version", cleaned_metadata, "dataset_version", PyStr(<<>>)),
            Taken("doi", cleaned_metadata, "doi", PyStr(<<>>)),
            Taken("download_url", cleaned_metadata, "download_url", PyStr(<<>>)),
            Taken("keywords", cleaned_metadata, "keywords", PyList(<<>>)),
            Taken("license", cleaned_metadata, "license", PyDict(<<>>)),
            Taken("authors", cleaned_metadata, "authors", PyList(<<>>)),
            Taken("funding", cleaned_metadata, "funding", PyList(<<>>)),
            Taken("publications", cleaned_metadata, "publications", PyList(<<>>)),
            Taken("metadata_sources", cleaned_metadata, "metadata_sources", PyDict(<<>>)),
            At("additional_display", PyList(<<
                GetOr(cleaned_metadata, "detailed_metadata", PyDict(<<>>)),
                GetOr(cleaned_metadata, "dua_content", PyDict(<<>>)),
                GetOr(cleaned_metadata, "participants", PyDict(<<>>)) >>)) >>))

\* how a call that wrote nothing ended
Raised(exception, checked) ==
    [raised |-> exception, xml |-> Unset, jsonl |-> Unset, validation |-> checked]

\* the validate_metadata call of an export that has parsed the workbook
ValidationOf(parsed, skip_validation) ==
    IF parsed.raised # "" \/ skip_validation THEN NotValidated
    ELSE validate_metadata(parsed.metadata)

\* the exception of the steps before the file is written, "" when there is
\* none: the parse, then unless skipped the validation and its verdict
RaisedBeforeWrite(parsed, checked, skip_validation) ==
    IF parsed.raised # "" THEN parsed.raised
    ELSE IF skip_validation THEN ""
    ELSE IF checked.raised # "" THEN checked.raised
    ELSE IF ValidationFailed(checked.validation_errors) THEN "ValueError"
    ELSE ""

\* The three exports, from their first statement on: parsed is what
\* parse_excel_metadata(excel_path) gave.  The result is [raised, xml, jsonl,
\* validation]: the exception the call ends in, the documents it wrote
\* (Unset: none) and its validate_metadata call.
export_xlsx_to_xml(parsed, skip_validation) ==
    LET checked == ValidationOf(parsed, skip_validation)
        before == RaisedBeforeWrite(parsed, checked, skip_validation)
    IN  IF before # "" THEN Raised(before, checked)
        ELSE IF XmlRaises(parsed.metadata) THEN Raised("TypeError", checked)
        ELSE [raised |-> "", xml |-> XmlDocument(parsed.metadata), jsonl |-> Unset,
              validation |-> checked]

export_xlsx_to_jsonl(parsed, skip_validation) ==
    LET checked == ValidationOf(parsed, skip_validation)
        before == RaisedBeforeWrite(parsed, checked, skip_validation)
    IN  IF before # "" THEN Raised(before, checked)
        ELSE [raised |-> "", xml |-> Unset, jsonl |-> JsonlData(parsed.metadata),
              validation |-> checked]

\* parse, validate and warn, then the two exports with skip_validation=True;
\* each of them parses the same workbook again, to the same record
export_xlsx_to_both(parsed) ==
    LET checked == ValidationOf(parsed, FALSE)
        xml_export == export_xlsx_to_xml(parsed, TRUE)
        jsonl_export == export_xlsx_to_jsonl(parsed, TRUE)
    IN  IF parsed.raised # "" THEN Raised(parsed.raised, checked)
        ELSE IF checked.raised # "" THEN Raised(checked.raised, checked)
        ELSE IF xml_export.raised # "" THEN Raised(xml_export.raised, checked)
        ELSE [raised |-> jsonl_export.raised, xml |-> xml_export.xml,
              jsonl |-> jsonl_export.jsonl, validation |-> checked]

----------------------------------------------------------------------------
(* The workbooks exported.  Each sheet is missing or filled in one of a few *)
(* ways, one of them complete; a workbook differs from the complete one in  *)
(* at most MaxDeviations sheets, or has no sheet at all.                    *)

MaxDeviations == 2

\* a row of a sheet: its cells under the names of the columns
Row(columns, cells) == PyDict([i \in 1..Len(columns) |-> At(columns[i], cells[i])])

\* a sheet read by column, of `width` columns as pandas names them: the
\* two heading rows, then its rows
Headed(width, rows) ==
    LET columns ==
            SubSeq(<<"# Metadata record for PublicnEUro", "Unnamed: 1", "Unnamed: 2",
                     "Unnamed: 3">>, 1, width)
    IN  PyList(<< Row(columns, [i \in 1..width |-> IF i = 1 THEN Str("#") ELSE PyNaN]),
                  Row(columns, [i \in 1..width |-> Str("Heading")]) >>
               \o [i \in 1..Len(rows) |-> Row(columns, rows[i])])

\* the dataset_info sheet, of the keys and their values
InfoSheet(rows) ==
    PyList([i \in 1..Len(rows) |->
        Row(<<"# Metadata record for PublicnEUro\n# BOLD field are mandatory", "values">>,
            rows[i])])

InfoComplete ==
    InfoSheet(<< <<Str(" title\n"), Str("T")>>,
                 <<Str("description"), Str("D")>>,
                 <<Str("PN ID"), Str("PN1")>>,
                 <<Str("DOI"), Str("10.1/X")>>,
                 <<Str("dataset version"), PyNum(1)>>,
                 <<Str("Keywords"), Str("a, b")>>,
                 <<Str("BIDS version"), Str("1.8")>>,
                 <<Str("BIDS Dataset type"), Str("Derived")>>,
                 <<Str("BIDS data type"), Str("anat func")>>,
                 <<Str("SNOMED ID"), PyNaN>> >>)

AuthorsComplete == Headed(1, << <<Str("A B C")>>, <<Str("D E")>> >>)

\* the funding and the publications sheets, filled
ReferencesComplete ==
    << Headed(2, << <<Str("F"), PyNaN>> >>),
       Headed(4, << <<Str("P"), PyNum(2020), Str("A B C et al."), PyNaN>> >>) >>

\* the participants_info sheet, of the keys and their values
ParticipantsSheet(subjects, age_range) ==
    PyList(<< Row(<<"Group level information", "Unnamed: 1">>,
                  <<Str("Number of subjects"), subjects>>),
              Row(<<"Group level information", "Unnamed: 1">>,
                  <<Str("Age range [min max]"), age_range>>) >>)

ParticipantsComplete == ParticipantsSheet(PyNum(25), Str("18 65"))

DuaSheet(restrictions, terms) ==
    PyList(<< Row(<<"Field", "Content">>, <<Str("Restrictions"), restrictions>>),
              Row(<<"Field", "Content">>, <<Str("Terms"), terms>>) >>)

DuaComplete == DuaSheet(Str("R\r\nS"), Str("T\n\"U\""))

CuratorsComplete == Headed(2, << <<Str("C"), Str("I")>> >>)

\* sheet_name: sheet, for a sheet the workbook has
Sheet(sheet_name, sheet) == IF sheet = Unset THEN <<>> ELSE <<At(sheet_name, sheet)>>

\* 1 for a sheet that is not the complete one
Deviation(sheet, complete) == IF sheet = complete THEN 0 ELSE 1

\* The sheets a workbook is made of:
\*   dataset_info       missing; complete; with placeholders typed into cells
\*   participants_info  missing; complete; the age range typed as one number
\*   DUA                missing; complete; open licence without terms;
\*                      restricted without terms
\*   authors            missing; complete; no name in it
\*   dataset curators   missing; complete; the institution cell empty; a
\*                      complete curator and then one with the institution
\*                      cell empty; no institution column
\*   funding and publications  both missing, or both filled
Workbooks ==
    LET info_sheets ==
            { Unset, InfoComplete,
              InfoSheet(<< <<Str("title"), Str("T")>>,
                           <<Str("description"), Str("[]")>>,
                           <<Str("dataset version"), Str("VV2")>>,
                           <<Str("Keywords"), Str("N/A")>>,
                           <<Str("BIDS version"), Str("1.8")>>,
                           <<Str("BIDS data type"), Str("anat")>>,
                           <<Str("SNOMED label"), Str("n.a.")>> >>) }
        participants_sheets ==
            { Unset, ParticipantsComplete, ParticipantsSheet(PyNum(25), PyFloat(18)) }
        dua_sheets ==
            { Unset, DuaComplete, DuaSheet(Str("None (CCBY)"), PyNaN),
              DuaSheet(Str("R"), PyNaN) }
        authors_sheets ==
            { Unset, AuthorsComplete, Headed(1, << <<PyNaN>>, <<Str(" ")>> >>) }
        curators_sheets ==
            { Unset, CuratorsComplete,
              Headed(2, << <<Str("C"), PyNaN>> >>),
              Headed(2, << <<Str("C"), Str("I")>>, <<Str("E"), PyNaN>> >>),
              Headed(1, << <<Str("C")>> >>) }
        reference_sheets == { <<Unset, Unset>>, ReferencesComplete }
    IN
    { PyDict(Sheet("dataset_info", info) \o Sheet("participants_info", participants)
             \o Sheet("DUA", dua) \o Sheet("authors", authors)
             \o Sheet("dataset curators", curators)
             \o Sheet("funding", references[1]) \o Sheet("publications", references[2])) :
        <<info, participants, dua, authors, curators, references>> \in
            { w \in info_sheets \X participants_sheets \X dua_sheets \X authors_sheets
                    \X curators_sheets \X reference_sheets :
                Deviation(w[1], InfoComplete) + Deviation(w[2], ParticipantsComplete)
                    + Deviation(w[3], DuaComplete) + Deviation(w[4], AuthorsComplete)
                    + Deviation(w[5], CuratorsComplete)
                    + Deviation(w[6], ReferencesComplete) <= MaxDeviations } }
    \cup { PyDict(<<>>) }

\* what an output file holds that an earlier run left
StaleFile == Str("old")

InitExport ==
    /\ workbook \in Workbooks
    /\ xml_file \in {Unset, StaleFile}
    /\ jsonl_file = xml_file
    /\ export_call = NoCall
    /\ validation = NotValidated
    /\ CleanIdle
    /\ CatalogIdle
    /\ PipelineIdle
    /\ NormIdle
    /\ ListerIdle
    /\ FinderIdle
    /\ ToolsIdle

\* the files and the record of the call after an export that ended as
\* result: open(path, 'w') and write, for each document it made
Exported(op, skip_validation, result) ==
    /\ xml_file' = IF result.xml = Unset THEN xml_file ELSE result.xml
    /\ jsonl_file' = IF result.jsonl = Unset THEN jsonl_file ELSE result.jsonl
    /\ export_call' = [op |-> op, skip_validation |-> skip_validation,
                       raised |-> result.raised]
    /\ validation' = result.validation
    /\ UNCHANGED workbook

ExportXml ==
    /\ \E skip_validation \in BOOLEAN :
        Exported("xml", skip_validation,
                 export_xlsx_to_xml(parse_excel_metadata(workbook), skip_validation))
    /\ UNCHANGED <<cleanVars, normVars, listerVars, finderVars, toolVars, catalogVars, pipelineVars>>

ExportJsonl ==
    /\ \E skip_validation \in BOOLEAN :
        Exported("jsonl", skip_validation,
                 export_xlsx_to_jsonl(parse_excel_metadata(workbook), skip_validation))
    /\ UNCHANGED <<cleanVars, normVars, listerVars, finderVars, toolVars, catalogVars, pipelineVars>>

ExportBoth ==
    /\ Exported("both", FALSE, export_xlsx_to_both(parse_excel_metadata(workbook)))
    /\ UNCHANGED <<cleanVars, normVars, listerVars, finderVars, toolVars, catalogVars, pipelineVars>>

\* validate_metadata called on the record parsed from the workbook
ValidateMetadata ==
    LET parsed == parse_excel_metadata(workbook)
    IN  /\ parsed.raised = ""
        /\ validation' = validate_metadata(parsed.metadata)
        /\ export_call' = [op |-> "validate", skip_validation |-> FALSE,
                           raised |-> validation'.raised]
        /\ UNCHANGED <<workbook, xml_file, jsonl_file, cleanVars, normVars, listerVars, finderVars, toolVars, catalogVars, pipelineVars>>

NextExport == ExportXml \/ ExportJsonl \/ ExportBoth \/ ValidateMetadata

SpecExport == InitExport /\ [][NextExport]_vars

----------------------------------------------------------------------------
(* Claims about the exports *)

\* the last call was a strict one whose validation returned with an issue
StrictCallWithIssues(call, checked) ==
    /\ call.op \in {"xml", "jsonl"}
    /\ ~call.skip_validation
    /\ checked.ran
    /\ checked.raised = ""
    /\ total_errors(checked.validation_errors) > 0

\* C1: when export_xlsx_to_xml or export_xlsx_to_jsonl is called with
\* skip_validation=False and validate_metadata reports at least one issue,
\* the call raises ValueError and neither output file is created or changed.
C1_StrictFailureWritesNothing ==
    [][ StrictCallWithIssues(export_call', validation')
            => /\ export_call'.raised = "ValueError"
               /\ xml_file' = xml_file
               /\ jsonl_file' = jsonl_file ]_vars

\* C1 witness: a strict XML export of a workbook with an issue has raised
\* ValueError, and the XML file of an earlier run is still what it was.
C1_Witness ==
    /\ StrictCallWithIssues(export_call, validation)
    /\ export_call.op = "xml"
    /\ export_call.raised = "ValueError"
    /\ xml_file = StaleFile

\* C2: for every workbook that parses, export_xlsx_to_both raises nothing
\* and writes both the XML and the JSONL document, whatever validation says.
C2_BothWritesBothFiles ==
    (export_call.op = "both" /\ parse_excel_metadata(workbook).raised = "")
        => /\ export_call.raised = ""
           /\ xml_file = XmlDocument(parse_excel_metadata(workbook).metadata)
           /\ jsonl_file = JsonlData(parse_excel_metadata(workbook).metadata)

\* the strings that stand for "no value" in a written record
Placeholders == {<<>>, Chars("n.a."), Chars("N/A"), Chars("[]")}

\* a null, an empty string, list or mapping, or a placeholder, at any depth
RECURSIVE HoldsEmptyField(_)
HoldsEmptyField(v) ==
    \/ v.t \in {"none", "nan"}
    \/ v.t = "str" /\ v.s \in Placeholders
    \/ v.t \in {"list", "dict"} /\ v.c = <<>>
    \/ v.t \in {"list", "dict"} /\ \E i \in 1..Len(v.c) : HoldsEmptyField(v.c[i])

\* C5: the JSON object written by export_xlsx_to_jsonl holds at no depth a
\* null, an empty string, an empty list or mapping, or one of the
\* placeholder strings "n.a.", "N/A" and "[]".
C5_WrittenRecordHoldsNoEmptyField ==
    (export_call.op = "jsonl" /\ export_call.raised = "")
        => ~HoldsEmptyField(jsonl_file)

\* C8: validate_metadata, given a record parse_excel_metadata produced,
\* raises nothing and returns a mapping with exactly the five category keys,
\* each a list of issues.
C8_ValidateReturnsFiveLists ==
    validation.ran
        => /\ validation.raised = ""
           /\ DOMAIN validation.validation_errors =
                  {"dataset_info", "participants", "dua", "authors", "data_curators"}

\* an XML export has written its document
XmlWritten == export_call.op \in {"xml", "both"} /\ export_call.raised = ""

\* C21: in the XML written by export_xlsx_to_xml, contributors holds exactly
\* one person_name per author of the record, in author order; the first
\* has sequence "first", every later one "additional", and all have
\* contributor_role "author".
C21_OnePersonNamePerAuthor ==
    XmlWritten
        => LET authors == Get(parse_excel_metadata(workbook).metadata, "authors").c
               contributors == Get(xml_file, "contributors").c
           IN  /\ Len(contributors) = Len(authors)
               /\ \A i \in 1..Len(contributors) :
                    /\ Get(contributors[i], "given_name") = Get(authors[i], "givenName")
                    /\ Get(contributors[i], "surname") = Get(authors[i], "familyName")
                    /\ Get(contributors[i], "contributor_role") = Str("author")
                    /\ Get(contributors[i], "sequence") = Str("first") <=> i = 1
                    /\ Get(contributors[i], "sequence") = Str("additional") <=> i > 1

\* C21 witness: a workbook with two authors was exported to XML: the first
\* person_name is A, "first", the second is D, "additional".
C21_Witness ==
    /\ XmlWritten
    /\ Len(Get(xml_file, "contributors").c) = 2
    /\ Get(Get(xml_file, "contributors").c[1], "given_name") = Str("A")
    /\ Get(Get(xml_file, "contributors").c[1], "sequence") = Str("first")
    /\ Get(Get(xml_file, "contributors").c[2], "given_name") = Str("D")
    /\ Get(Get(xml_file, "contributors").c[2], "sequence") = Str("additional")

\* a JSONL export has written its line
JsonlWritten == export_call.op \in {"jsonl", "both"} /\ export_call.raised = ""

\* the three sections of the record parsed from the workbook, after
\* remove_nan_and_na_values, in the order of additional_display
DisplaySections ==
    LET cleaned_metadata == remove_nan_and_na_values(parse_excel_metadata(workbook).metadata)
    IN  << GetOr(cleaned_metadata, "detailed_metadata", PyDict(<<>>)),
           GetOr(cleaned_metadata, "dua_content", PyDict(<<>>)),
           GetOr(cleaned_metadata, "participants", PyDict(<<>>)) >>

\* the content mapping of a section is not empty
HasContent(section) ==
    /\ HasKey(section, "content")
    /\ Get(section, "content").t = "dict"
    /\ Get(section, "content").c # <<>>

\* C19: in the JSONL written by export_xlsx_to_jsonl, additional_display
\* holds, in the order detailed_metadata, dua_content, participants, exactly
\* the sections whose content mapping is non-empty after cleaning; a section
\* with empty content never appears, and the key is omitted when all three
\* are dropped.
C19_AdditionalDisplayKeepsSectionsWithContent ==
    /\ JsonlWritten
          => /\ HasKey(jsonl_file, "additional_display")
                    <=> \E i \in 1..3 : HasContent(DisplaySections[i])
             /\ HasKey(jsonl_file, "additional_display")
                    => /\ Get(jsonl_file, "additional_display")
                              = PyList(SelectSeq(DisplaySections, HasContent))
                       /\ \A i \in 1..Len(Get(jsonl_file, "additional_display").c) :
                              HasContent(Get(jsonl_file, "additional_display").c[i])
    /\ ~HasKey(clean_jsonl_structure(PyDict(<<
            At("type", Str("dataset")),
            At("additional_display",
               PyList(<< PyDict(<<>>),
                         PyDict(<<At("name", Str("DUA terms"))>>),
                         PyDict(<<At("name", Str("Participants")),
                                  At("content", PyDict(<<>>))>>) >>)) >>)),
                "additional_display")

\* C19 witness: a workbook without its participants_info sheet was exported
\* to JSONL: additional_display holds the dataset metadata and the DUA
\* terms, in this order, and no participants section.
C19_Witness ==
    /\ JsonlWritten
    /\ ~HasContent(DisplaySections[3])
    /\ HasKey(jsonl_file, "additional_display")
    /\ Len(Get(jsonl_file, "additional_display").c) = 2
    /\ Get(Get(jsonl_file, "additional_display").c[1], "name") = Str("Dataset Metadata")
    /\ Get(Get(jsonl_file, "additional_display").c[2], "name") = Str("DUA terms")

\* the fields of the JSONL record, in the order of the dict built for
\* clean_jsonl_structure
JsonlFields ==
    << "type", "name", "description", "dataset_id", "dataset_version", "doi",
       "download_url", "keywords", "license", "authors", "funding", "publications",
       "metadata_sources", "additional_display" >>

\* the keys of a mapping, in its order
KeysOf(d) == [i \in 1..Len(d.c) |-> d.c[i].k]

----------------------------------------------------------------------------
(* process_dataset: one run, statement by statement.  pd_pc names the       *)
(* statement to run next; each call the function makes is one step, and     *)
(* pd_calls gets the call once it has ended, with the exception it raised   *)
(* ("" when it returned).                                                   *)

\* a call that has ended
Called(call, arguments, raised) ==
    [call |-> call, arguments |-> arguments, raised |-> raised]

\* an exception raised by a call, with no message held
Propagated(raised) ==
    IF raised = "" THEN NoException ELSE [type |-> raised, message |-> <<>>]

\* after a statement of the try block: the next one, and none of them once
\* an exception is raised, which the except clause prints and raises again
ThenAlways(raised, next) == next

Then(raised, next) == IF raised.type # "" THEN "raised" ELSE next

\* re.match(r'(PN[C]?\d+)', dataset_id): group 1 of the match, 'PN*' when
\* there is none
PnId(dataset_id) ==
    LET digits == {Chars("0123456789")[i] : i \in 1..10}
        from == IF Len(dataset_id) >= 3 /\ dataset_id[3] = "C" THEN 4 ELSE 3
        run == {j \in from..Len(dataset_id) : \A i \in from..j : dataset_id[i] \in digits}
    IN  IF StartsWith(dataset_id, Chars("PN")) /\ run # {}
        THEN SubSeq(dataset_id, 1, CHOOSE j \in run : \A i \in run : i <= j)
        ELSE Chars("PN*")

\* f"{pn_id}*/{dataset_version}" of the record in the JSONL file
DatasetPattern(dataset_metadata) ==
    PnId(GetOr(dataset_metadata, "dataset_id", Str("")).s) \o Chars("*/")
        \o StrOf(GetOr(dataset_metadata, "dataset_version", Str("V1")))

\* re.match raises TypeError for a dataset_id that is no str
PatternRaises(dataset_metadata) ==
    GetOr(dataset_metadata, "dataset_id", Str("")).t # "str"

\* subprocess.run(cmd, capture_output=True, text=True): the exit code of the
\* command, or FileNotFoundError when there is no datalad to run
SubprocessRuns ==
    { [raised |-> "", returncode |-> code] : code \in 0..2 }
    \cup { [raised |-> "FileNotFoundError", returncode |-> 0] }

\* import_result.returncode != 0
ImportFailedAboveOne(returncode) == returncode > 1

ImportFailed(returncode) == returncode # 0

\* process_dataset(excel_file, file_list_source) called: nothing written
\* yet, the file list empty, of one file, or of one file with a size that
\* is no number
InitPipeline ==
    /\ CleanIdle
    /\ NormIdle
    /\ ListerIdle
    /\ FinderIdle
    /\ ToolsIdle
    /\ workbook \in Workbooks
    /\ xml_file = Unset
    /\ jsonl_file = Unset
    /\ export_call = NoCall
    /\ validation = NotValidated
    /\ dataset_jsonl = Unset
    /\ file_list \in ListsOf({ PyDict(<<At("path", Str("a/b")),
                                        At("contentbytesize", z)>>)
                                 : z \in {PyNum(5), Str("x")} }, 1)
    /\ output_file = Unset
    /\ catalog_file = <<>>
    /\ pfm_outcome = "idle"
    /\ pfm_return = Unset
    /\ pfm_runs = 0
    /\ pd_pc = "step1"
    /\ pd_calls = <<>>
    /\ dataset_pattern = Unset
    /\ validate_result = Unset
    /\ import_result = Unset
    /\ pd_raised = NoException
    /\ pd_return = Unset

\* Step 1: xml_file, jsonl_file = export_xlsx_to_both(excel_file)
ConvertExcel ==
    /\ pd_pc = "step1"
    /\ LET both == export_xlsx_to_both(parse_excel_metadata(workbook))
       IN  /\ Exported("both", FALSE, both)
           /\ pd_calls' = Append(pd_calls,
                                 Called("export_xlsx_to_both", "excel_file", both.raised))
           /\ pd_raised' = Propagated(both.raised)
           /\ pd_pc' = Then(pd_raised', "step2")
    /\ UNCHANGED <<cleanVars, normVars, listerVars, finderVars, toolVars, catalogVars, dataset_pattern, validate_result,
                   import_result, pd_return>>

\* Step 2: catalog_file = process_file_metadata(dataset_jsonl=jsonl_file, ...)
GenerateFileCatalog ==
    /\ pd_pc = "step2"
    /\ FileMetadataCalled(jsonl_file, file_list.c, PyNone)
    /\ dataset_jsonl' = jsonl_file
    /\ output_file' = PyNone
    /\ pd_calls' = Append(pd_calls,
                          Called("process_file_metadata", "dataset_jsonl=jsonl_file",
                                 IF pfm_outcome' = "ok" THEN "" ELSE pfm_outcome'))
    /\ pd_raised' = Propagated(IF pfm_outcome' = "ok" THEN "" ELSE pfm_outcome')
    /\ pd_pc' = Then(pd_raised', "pattern")
    /\ UNCHANGED <<file_list, cleanVars, normVars, listerVars, finderVars, toolVars, exportVars, dataset_pattern, validate_result,
                   import_result, pd_return>>

\* Step 2.5: the pattern from the first line of jsonl_file
ExtractPattern ==
    /\ pd_pc = "pattern"
    /\ pd_raised' = Propagated(IF PatternRaises(jsonl_file) THEN "TypeError" ELSE "")
    /\ dataset_pattern' = IF PatternRaises(jsonl_file) THEN dataset_pattern
                          ELSE PyStr(DatasetPattern(jsonl_file))
    /\ pd_pc' = Then(pd_raised', "validate")
    /\ UNCHANGED <<cleanVars, normVars, listerVars, finderVars, toolVars, catalogVars, exportVars, pd_calls, validate_result,
                   import_result, pd_return>>

\* Step 3, first: datalad catalog-validate; an exit code that is not 0 is
\* printed as a warning
Validate ==
    /\ pd_pc = "validate"
    /\ \E ran \in SubprocessRuns :
        /\ validate_result' = IF ran.raised = "" THEN PyNum(ran.returncode)
                              ELSE validate_result
        /\ pd_calls' = Append(pd_calls,
                              Called("datalad catalog-validate", "--metadata catalog_file",
                                     ran.raised))
        /\ pd_raised' = Propagated(ran.raised)
    /\ pd_pc' = Then(pd_raised', "import")
    /\ UNCHANGED <<cleanVars, normVars, listerVars, finderVars, toolVars, catalogVars, exportVars, dataset_pattern, import_result,
                   pd_return>>

\* Step 3, then: datalad catalog-add; an exit code that is not 0 raises
Import ==
    /\ pd_pc = "import"
    /\ \E ran \in SubprocessRuns :
        /\ import_result' = IF ran.raised = "" THEN PyNum(ran.returncode)
                            ELSE import_result
        /\ pd_calls' = Append(pd_calls,
                              Called("datalad catalog-add",
                                     "--catalog catalog_name --metadata abs_catalog_file",
                                     ran.raised))
        /\ pd_raised' =
               IF ran.raised = "" /\ ImportFailed(ran.returncode)
               THEN [type |-> "Exception",
                     message |-> Chars("Failed to import dataset to catalog: stderr")]
               ELSE Propagated(ran.raised)
    /\ pd_pc' = Then(pd_raised', "find")
    /\ UNCHANGED <<cleanVars, normVars, listerVars, finderVars, toolVars, catalogVars, exportVars, dataset_pattern, validate_result,
                   pd_return>>

\* Step 4: find_catalogue_set_file(dataset_pattern, reorder_children=True),
\* which returns no dataset or one, or fails to enter the catalogue
\* directory; then the result dict (of which the paths of step 1 are not
\* held)
Find ==
    /\ pd_pc = "find"
    /\ \E results \in { PyDict(<<>>), PyDict(<<At("PN1T_V1", PyDict(<<>>))>>) },
          raised \in {"", "FileNotFoundError"} :
        /\ pd_calls' = Append(pd_calls,
                              Called("find_catalogue_set_file",
                                     "dataset_pattern, reorder_children=True", raised))
        /\ pd_raised' = Propagated(raised)
        /\ pd_return' = IF raised # "" THEN pd_return
                        ELSE PyDict(<< At("catalog", pfm_return),
                                       At("found", PyList([i \in 1..Len(results.c) |->
                                                            Str(results.c[i].k)])) >>)
    /\ pd_pc' = Then(pd_raised', "returned")
    /\ UNCHANGED <<cleanVars, normVars, listerVars, finderVars, toolVars, catalogVars, exportVars, dataset_pattern, validate_result,
                   import_result>>

NextPipeline ==
    \/ ConvertExcel
    \/ GenerateFileCatalog
    \/ ExtractPattern
    \/ Validate
    \/ Import
    \/ Find

SpecPipeline == InitPipeline /\ [][NextPipeline]_vars

----------------------------------------------------------------------------
(* Claims about process_dataset *)

\* the names of the calls made, in order
CallNames == [i \in 1..Len(pd_calls) |-> pd_calls[i].call]

\* the five steps of a run
StepNames ==
    << "export_xlsx_to_both", "process_file_metadata", "datalad catalog-validate",
       "datalad catalog-add", "find_catalogue_set_file" >>

\* C9: a non-zero exit of 'datalad catalog-validate' raises nothing and
\* 'datalad catalog-add' is the next call made; a non-zero exit of
\* 'datalad catalog-add' ends the run in an exception whose message holds
\* "Failed to import dataset to catalog", with find_catalogue_set_file
\* never called and the import called once only.
C9_ValidateWarnsImportFails ==
    /\ (validate_result.t = "num" /\ validate_result.n # 0)
           => /\ pd_pc = "import" \/ Len(pd_calls) >= 4
              /\ pd_pc = "import" => pd_raised = NoException
              /\ Len(pd_calls) >= 4 => pd_calls[4].call = "datalad catalog-add"
    /\ (import_result.t = "num" /\ import_result.n # 0)
           => /\ pd_pc = "raised"
              /\ Contains(pd_raised.message, Chars("Failed to import dataset to catalog"))
              /\ CallNames = SubSeq(StepNames, 1, 4)

\* C9 witness: both commands have exited with 1; the run has ended in the
\* import's exception after the four calls.
C9_Witness ==
    /\ validate_result = PyNum(1)
    /\ import_result = PyNum(1)
    /\ pd_pc = "raised"
    /\ Len(pd_calls) = 4

\* C10: the calls made are at every moment the first ones of the five steps
\* in their order, each made once and each but the last having returned; a
\* run that returns has made all five, two of them the subprocess; and when
\* export_xlsx_to_both raises, it is the only call made and the run ends in
\* its exception.
C10_StepsInOrderOnce ==
    /\ CallNames = SubSeq(StepNames, 1, Len(pd_calls))
    /\ \A i \in 1..(Len(pd_calls) - 1) : pd_calls[i].raised = ""
    /\ pd_pc = "returned"
           => /\ Len(pd_calls) = 5
              /\ pd_calls[5].arguments = "dataset_pattern, reorder_children=True"
              /\ pd_raised = NoException
    /\ (pd_calls # <<>> /\ pd_calls[1].raised # "")
           => /\ Len(pd_calls) = 1
              /\ pd_pc = "raised"
              /\ pd_raised.type = pd_calls[1].raised

\* C10 witness: a run has returned after the five calls, with a dataset
\* found.
C10_Witness ==
    /\ pd_pc = "returned"
    /\ Len(pd_calls) = 5
    /\ Get(pd_return, "found").c # <<>>

----------------------------------------------------------------------------
(* The normalizers applied to one cell: format_version, extract_doi_suffix, *)
(* parse_keywords, parse_bids_datatypes, parse_bids_dataset_type            *)

\* the most pieces a cell text is made of
MaxPieces == 3

\* the pieces of the cell texts: what the normalizers look for, and a
\* digit and a letter that they do not
Pieces ==
    { Chars("V"), Chars("1"), Chars(" "), Chars("/"), Chars(","), Chars("a"),
      Chars("Raw"), Chars("DERIV"), Chars("processed") }

\* the cells: texts, an empty cell (NaN), None, and numbers as a
\* spreadsheet gives them
CellValues ==
    { PyStr(Join(pieces, <<>>)) : pieces \in SeqsUpTo(Pieces, MaxPieces) }
    \cup { PyNone, PyNaN, PyNum(0), PyNum(1), PyFloat(2) }

InitNormalize ==
    /\ CleanIdle
    /\ CatalogIdle
    /\ ExportIdle
    /\ PipelineIdle
    /\ ListerIdle
    /\ FinderIdle
    /\ ToolsIdle
    /\ cell_value \in CellValues
    /\ normalizer = "none"
    /\ normalized = Unset
    /\ renormalized = Unset

\* result = function(cell_value)
Normalized(function, result) ==
    /\ normalizer = "none"
    /\ normalizer' = function
    /\ normalized' = result
    /\ UNCHANGED <<cell_value, renormalized, cleanVars, listerVars, finderVars, toolVars, catalogVars, exportVars,
                   pipelineVars>>

FormatVersion == Normalized("format_version", PyStr(format_version(cell_value)))

\* format_version on the version it returned
FormatVersionAgain ==
    /\ normalizer = "format_version"
    /\ renormalized = Unset
    /\ renormalized' = PyStr(format_version(normalized))
    /\ UNCHANGED <<cell_value, normalizer, normalized, cleanVars, listerVars, finderVars, toolVars, catalogVars,
                   exportVars, pipelineVars>>

ExtractDoiSuffix ==
    Normalized("extract_doi_suffix", PyStr(extract_doi_suffix(cell_value)))

ParseKeywords == Normalized("parse_keywords", StrList(parse_keywords(cell_value)))

ParseBidsDatatypes ==
    Normalized("parse_bids_datatypes", StrList(parse_bids_datatypes(cell_value)))

ParseBidsDatasetType ==
    Normalized("parse_bids_dataset_type", PyStr(parse_bids_dataset_type(cell_value)))

NextNormalize ==
    \/ FormatVersion
    \/ FormatVersionAgain
    \/ ExtractDoiSuffix
    \/ ParseKeywords
    \/ ParseBidsDatatypes
    \/ ParseBidsDatasetType

SpecNormalize == InitNormalize /\ [][NextNormalize]_vars

----------------------------------------------------------------------------
(* Claims about the normalizers *)

\* C11: every version format_version returns is the letter V followed by
\* content that does not begin with V, and format_version applied to a
\* version it returned returns the same version.
C11_FormatVersionIdempotent ==
    normalizer = "format_version"
        => /\ normalized.s # <<>>
           /\ normalized.s[1] = "V"
           /\ Len(normalized.s) > 1 => normalized.s[2] # "V"
           /\ renormalized # Unset => renormalized = normalized

\* C11 witness: the cell VV1 has been formatted to V1, and V1 formatted
\* again.
C11_Witness ==
    /\ normalizer = "format_version"
    /\ cell_value = Str("VV1")
    /\ normalized = Str("V1")
    /\ renormalized = Str("V1")

\* the suffix the reference gives for a DOI text: the text itself without
\* a slash, else what follows its last slash, XXXX for nothing
DoiReference(chars) ==
    LET slashes == {i \in 1..Len(chars) : chars[i] = "/"}
        last == CHOOSE i \in slashes : \A j \in slashes : j <= i
    IN  IF chars = <<>> THEN Chars("XXXX")
        ELSE IF slashes = {} THEN chars
        ELSE IF last = Len(chars) THEN Chars("XXXX")
        ELSE SubSeq(chars, last + 1, Len(chars))

\* C12: extract_doi_suffix(v) is XXXX when v is empty or missing, v
\* unchanged when v holds no slash, and otherwise what follows the last
\* slash of v, or XXXX when nothing follows it.
C12_DoiSuffixIsReference ==
    (normalizer = "extract_doi_suffix" /\ cell_value.t \in {"none", "nan", "str"})
        => normalized.s = DoiReference(cell_value.s)

\* the fields of a text between its separators, in order, empty ones too
FieldsOf(chars, separators) ==
    LET starts == {i \in 1..(Len(chars) + 1) : i = 1 \/ chars[i - 1] \in separators}
        start(k) == CHOOSE i \in starts : Cardinality({j \in starts : j < i}) = k - 1
        end(i) == CHOOSE j \in i..(Len(chars) + 1) :
                      /\ j = Len(chars) + 1 \/ chars[j] \in separators
                      /\ \A m \in i..(j - 1) : chars[m] \notin separators
    IN  [k \in 1..Cardinality(starts) |-> SubSeq(chars, start(k), end(start(k)) - 1)]

\* C13: parse_keywords and parse_bids_datatypes return [] for an empty or
\* missing value; otherwise the fields of the text between its commas when
\* it holds a comma, between its whitespace when it holds none, in their
\* order, each trimmed, and none of them empty.
C13_KeywordsSplitTrimmedInOrder ==
    (normalizer \in {"parse_keywords", "parse_bids_datatypes"} /\ cell_value # PyNum(0))
        => LET text == IF cell_value.t \in {"none", "nan"} THEN <<>>
                       ELSE StrOf(cell_value)
               fields == FieldsOf(text, IF \E i \in 1..Len(text) : text[i] = ","
                                        THEN {","} ELSE Whitespace)
               trimmed == [k \in 1..Len(fields) |-> Strip(fields[k])]
               items == CharsOf(normalized.c)
           IN  /\ items = SelectSeq(trimmed, LAMBDA field : field # <<>>)
               /\ \A k \in 1..Len(items) :
                      /\ items[k] # <<>>
                      /\ items[k][1] \notin Whitespace
                      /\ items[k][Len(items[k])] \notin Whitespace

\* C13 witness: the keywords "a, " have been parsed to the one keyword a.
C13_Witness ==
    /\ normalizer = "parse_keywords"
    /\ cell_value = Str("a, ")
    /\ normalized = StrList(<<Chars("a")>>)

\* the text of the cell, lower-cased, holds the word
Mentions(word) ==
    LET text == IF cell_value.t \in {"none", "nan"} THEN <<>>
                ELSE Lower(StrOf(cell_value))
    IN  \E i \in 1..Len(text) :
            /\ i + Len(word) - 1 <= Len(text)
            /\ \A j \in 1..Len(word) : text[i + j - 1] = word[j]

C15_BothOrNeitherIsRaw ==
    (normalizer = "parse_bids_dataset_type"
        /\ Mentions(Chars("raw")) = Mentions(Chars("deriv")))
        => normalized.s = Chars("raw")

----------------------------------------------------------------------------
(* get_file_info, of file_metadata_utils.py and of get_files.py.  The       *)
(* directory scanned is given by its files, in the order the listings give *)
(* them: a file is [dirs, name, size], dirs the directories from the       *)
(* scanned one down to the file.                                           *)

\* chars.endswith(suffix)
EndsWith(chars, suffix) ==
    /\ Len(chars) >= Len(suffix)
    /\ SubSeq(chars, Len(chars) - Len(suffix) + 1, Len(chars)) = suffix

\* the tuple given to file.endswith in file_metadata_utils.py
Extensions ==
    { Chars(".json"), Chars(".edf"), Chars(".vhdr"), Chars(".vmrk"), Chars(".eeg"),
      Chars(".set"), Chars(".fdt"), Chars(".bdf"), Chars(".nii"), Chars(".nii.gz"),
      Chars(".zip"), Chars(".tsv"), Chars(".tsv.gz"), Chars(".pcd"), Chars(".tsa"),
      Chars(".tst"), Chars(".tsm"), Chars(".tsp"), Chars(".wfb"), Chars(".log"),
      Chars(".h5") }

\* the tuple given to file.endswith in get_files.py
GetFilesExtensions == (Extensions \ {Chars(".h5")}) \cup {Chars(".yml")}

\* should_include
ShouldInclude(file, extensions) ==
    \/ \E extension \in extensions : EndsWith(Chars(file), extension)
    \/ file \in {"README", "CHANGES", "LICENSE", "CITATION"}

\* sum(os.path.getsize(...)) over the files given
RECURSIVE TotalSize(_)
TotalSize(files) ==
    IF files = <<>> THEN 0 ELSE Head(files).size + TotalSize(Tail(files))

\* the names joined by the path separator
PathOf(names) == Join([i \in 1..Len(names) |-> Chars(names[i])], <<"/">>)

\* the loop over os.walk(directory_path), top down: `roots` are the
\* directories still to visit, the next one first, each by its directories
\* below the scanned one
RECURSIVE WalkEntries(_, _, _, _)
WalkEntries(files, path, roots, extensions) ==
    IF roots = <<>> THEN <<>>
    ELSE LET root == Head(roots)
             below == SelectSeq(files, LAMBDA f :
                          /\ Len(f.dirs) > Len(root)
                          /\ SubSeq(f.dirs, 1, Len(root)) = root)
             \* dirs, each once, without 'code'
             first == SelectSeq([i \in 1..Len(below) |-> i], LAMBDA i :
                          /\ below[i].dirs[Len(root) + 1] # "code"
                          /\ \A j \in 1..(i - 1) :
                                 below[j].dirs[Len(root) + 1] # below[i].dirs[Len(root) + 1])
             dirs == [k \in 1..Len(first) |-> below[first[k]].dirs[Len(root) + 1]]
             here == SelectSeq(files, LAMBDA f :
                         f.dirs = root /\ ShouldInclude(f.name, extensions))
             root_path == IF root = <<>> THEN path ELSE path \o <<"/">> \o PathOf(root)
             directories ==
                 IF EndsWith(root_path, Chars("sourcedata"))
                 THEN [k \in 1..Len(dirs) |->
                         PyDict(<< At("path", PyStr(Chars("sourcedata/") \o Chars(dirs[k]))),
                                   At("contentbytesize",
                                      PyNum(TotalSize(SelectSeq(below, LAMBDA f :
                                          f.dirs[Len(root) + 1] = dirs[k])))) >>)]
                 ELSE <<>>
             listed ==
                 [k \in 1..Len(here) |->
                     PyDict(<< At("path", PyStr(PathOf(here[k].dirs \o <<here[k].name>>))),
                               At("contentbytesize", PyNum(here[k].size)) >>)]
         IN  directories \o listed
                 \o WalkEntries(files, path,
                                [k \in 1..Len(dirs) |-> Append(root, dirs[k])] \o Tail(roots),
                                extensions)

\* the most files in the directory scanned
MaxTreeFiles == 3

\* the files a scanned directory is made of, each with a size of its own
TreeFiles ==
    << [dirs |-> <<>>, name |-> "README", size |-> 1],
       [dirs |-> <<>>, name |-> "notes.yml", size |-> 2],
       [dirs |-> <<>>, name |-> "scan.nii.gz", size |-> 4],
       [dirs |-> <<"code">>, name |-> "run.json", size |-> 8],
       [dirs |-> <<"sub", "code">>, name |-> "x.tsv", size |-> 16],
       [dirs |-> <<"sub">>, name |-> "README.yml", size |-> 32],
       [dirs |-> <<"sourcedata">>, name |-> "d.json", size |-> 64],
       [dirs |-> <<"sourcedata", "raw">>, name |-> "a.json", size |-> 128],
       [dirs |-> <<"sourcedata", "raw">>, name |-> "b.txt", size |-> 256],
       [dirs |-> <<"sourcedata", "raw", "code">>, name |-> "c.nii", size |-> 512],
       [dirs |-> <<"sourcedata", "dicom", "s1">>, name |-> "i.dcm", size |-> 1024] >>

\* get_file_info not called yet, on a directory of up to MaxTreeFiles of
\* the files, the directory itself named sourcedata or not
InitLister ==
    /\ CleanIdle
    /\ CatalogIdle
    /\ ExportIdle
    /\ PipelineIdle
    /\ NormIdle
    /\ FinderIdle
    /\ ToolsIdle
    /\ directory_path \in { Chars("/ds"), Chars("/ds/sourcedata") }
    /\ \E chosen \in SUBSET (1..Len(TreeFiles)) :
        /\ Cardinality(chosen) <= MaxTreeFiles
        /\ tree = SelectSeq(TreeFiles, LAMBDA f :
                      \E i \in chosen : TreeFiles[i] = f)
    /\ lister = "none"
    /\ file_info = <<>>

\* file_metadata_utils.get_file_info(directory_path)
GetFileInfo ==
    /\ lister = "none"
    /\ lister' = "file_metadata_utils"
    /\ file_info' = WalkEntries(tree, directory_path, << <<>> >>, Extensions)
    /\ UNCHANGED <<directory_path, tree, cleanVars, catalogVars, exportVars,
                   pipelineVars, normVars, finderVars, toolVars>>

\* get_files.get_file_info(path, 0)
GetFiles ==
    /\ lister = "none"
    /\ lister' = "get_files"
    /\ file_info' = WalkEntries(tree, directory_path, << <<>> >>, GetFilesExtensions)
    /\ UNCHANGED <<directory_path, tree, cleanVars, catalogVars, exportVars,
                   pipelineVars, normVars, finderVars, toolVars>>

NextLister == GetFileInfo \/ GetFiles

SpecLister == InitLister /\ [][NextLister]_vars

----------------------------------------------------------------------------
(* Claims about get_file_info *)

\* the paths of the entries of file_info
ListedPaths == {Get(file_info[i], "path").s : i \in 1..Len(file_info)}

\* the extensions of section 4.8 and of the docstring of
\* file_metadata_utils.get_file_info
AllowListed(name) ==
    \/ \E extension \in Extensions : EndsWith(Chars(name), extension)
    \/ name \in {"README", "CHANGES", "LICENSE", "CITATION"}

\* C16: get_file_info lists a file if and only if no directory above it is
\* named code and its name ends with an allow-listed extension or is
\* README, CHANGES, LICENSE or CITATION; so README and scan.nii.gz are
\* listed, notes.yml and README.yml are not.
C16_ListsAllowedFilesOutsideCode ==
    lister # "none"
        => \A i \in 1..Len(tree) :
               PathOf(tree[i].dirs \o <<tree[i].name>>) \in ListedPaths
                   <=> /\ \A k \in 1..Len(tree[i].dirs) : tree[i].dirs[k] # "code"
                       /\ AllowListed(tree[i].name)

\* the directories directly inside a directory named sourcedata and not
\* under a directory named code, each by its directories below the scanned
\* one
InsideSourcedata ==
    { D \in UNION { { SubSeq(tree[i].dirs, 1, k) : k \in 1..Len(tree[i].dirs) } :
                    i \in 1..Len(tree) } :
        /\ \A k \in 1..Len(D) : D[k] # "code"
        /\ IF Len(D) = 1
           THEN EndsWith(directory_path, Chars("/sourcedata"))
           ELSE D[Len(D) - 1] = "sourcedata" }

\* the files of the scanned directory under D
Under(D) ==
    SelectSeq(tree, LAMBDA f : Len(f.dirs) >= Len(D) /\ SubSeq(f.dirs, 1, Len(D)) = D)

\* C17: for every directory D directly inside a directory named sourcedata,
\* get_file_info emits exactly one aggregate entry for D, its
\* contentbytesize the sum of the sizes of all files under D, and no entry
\* for a file under D.
C17_SourcedataDirectoryIsOneEntry ==
    lister = "file_metadata_utils"
        => \A D \in InsideSourcedata :
               /\ Cardinality({ i \in 1..Len(file_info) :
                      file_info[i] =
                          PyDict(<< At("path", PyStr(Chars("sourcedata/") \o Chars(D[Len(D)]))),
                                    At("contentbytesize", PyNum(TotalSize(Under(D)))) >>) }) = 1
               /\ \A i \in 1..Len(Under(D)) :
                      PathOf(Under(D)[i].dirs \o <<Under(D)[i].name>>) \notin ListedPaths

----------------------------------------------------------------------------
(* fetch_set, of find_catalogue_set_file.py and of findset.py.  The folder  *)
(* searched is given by the entries found one directory down, in the order *)
(* of the two listings: an entry is [item, isdir, sub_item, isfile, data],  *)
(* item an entry of the folder, sub_item an entry of item, data what       *)
(* json.load makes of the file.                                            *)

\* json.load raises JSONDecodeError or UnicodeDecodeError
NoJson == [k |-> "", t |-> "invalid", s |-> <<>>, n |-> 0, c |-> <<>>]

\* os.path.join(item_path, sub_item), item_path = os.path.join(folder, item)
SubItemPath(entry) == Chars("/m/") \o Chars(entry.item) \o <<"/">> \o Chars(entry.sub_item)

\* data.get('type', '') of a dict; what .lower() is then called on
TypeOf(loaded) == GetOr(loaded, "type", PyStr(<<>>))

\* the two loops of fetch_set over the entries left, dataset_file as it
\* stands
RECURSIVE FetchLoop(_, _)
FetchLoop(entries, found) ==
    IF entries = <<>> THEN [raised |-> "", dataset_file |-> found]
    ELSE LET entry == Head(entries)
             loaded == entry.data
         IN  IF ~entry.isdir \/ ~entry.isfile
             THEN FetchLoop(Tail(entries), found)
             ELSE IF loaded = NoJson
             THEN FetchLoop(Tail(entries), found)
             ELSE IF loaded.t # "dict"
             THEN FetchLoop(Tail(entries), found)
             ELSE IF TypeOf(loaded).t # "str"
             THEN [raised |-> "AttributeError", dataset_file |-> Unset]
             ELSE IF Lower(TypeOf(loaded).s) = Chars("dataset")
             THEN FetchLoop(Tail(entries), PyStr(SubItemPath(entry)))
             ELSE FetchLoop(Tail(entries), found)

\* fetch_set(folder)
fetch_set(entries) == FetchLoop(entries, Str("not found"))

\* the most entries one directory down in the folder searched
MaxFolderEntries == 3

\* the entries a folder is made of
FolderEntries ==
    LET Typed(type) == PyDict(<<At("type", type)>>)
        File(item, sub_item, loaded) ==
            [item |-> item, isdir |-> TRUE, sub_item |-> sub_item, isfile |-> TRUE,
             data |-> loaded]
    IN  << File("a", "x.json", Typed(Str("dataset"))),
           File("a", "y.json", Typed(Str("Dataset"))),
           File("a", "notes.txt", NoJson),
           [item |-> "a", isdir |-> TRUE, sub_item |-> "sub", isfile |-> FALSE,
            data |-> NoJson],
           File("b", "z.json", Typed(Str("file"))),
           File("b", "w.json", PyList(<<Str("dataset")>>)),
           File("b", "v.json", Typed(Str("DATASET"))),
           File("c", "u.json", PyDict(<<>>)),
           File("c", "t.json", Typed(PyNum(1))),
           [item |-> "top.json", isdir |-> FALSE, sub_item |-> "", isfile |-> FALSE,
            data |-> Typed(Str("dataset"))] >>

\* fetch_set not called yet, on a folder of up to MaxFolderEntries of the
\* entries
InitFinder ==
    /\ CleanIdle
    /\ CatalogIdle
    /\ ExportIdle
    /\ PipelineIdle
    /\ NormIdle
    /\ ListerIdle
    /\ ToolsIdle
    /\ \E chosen \in SUBSET (1..Len(FolderEntries)) :
        /\ Cardinality(chosen) <= MaxFolderEntries
        /\ folder = SelectSeq(FolderEntries, LAMBDA entry :
                        \E i \in chosen : FolderEntries[i] = entry)
    /\ finder = "none"
    /\ dataset_file = Unset
    /\ fetch_raised = ""

\* a call of fetch_set(folder), of the module given
FetchSetCalled(module) ==
    /\ finder = "none"
    /\ finder' = module
    /\ dataset_file' = fetch_set(folder).dataset_file
    /\ fetch_raised' = fetch_set(folder).raised
    /\ UNCHANGED folder

\* find_catalogue_set_file.fetch_set(folder)
FetchSet ==
    /\ FetchSetCalled("find_catalogue_set_file")
    /\ UNCHANGED <<cleanVars, catalogVars, exportVars, pipelineVars, normVars,
                   listerVars, toolVars>>

\* findset.fetch_set(folder)
FindsetFetchSet ==
    /\ FetchSetCalled("findset")
    /\ UNCHANGED <<cleanVars, catalogVars, exportVars, pipelineVars, normVars,
                   listerVars, toolVars>>

NextFinder == FetchSet \/ FindsetFetchSet

SpecFinder == InitFinder /\ [][NextFinder]_vars

----------------------------------------------------------------------------
(* Claims about fetch_set *)

\* the entries of the folder that are JSON files one directory down whose
\* top-level type is, whatever the case, "dataset", by their place in the
\* traversal
DatasetEntries ==
    { i \in 1..Len(folder) :
        /\ folder[i].isdir
        /\ folder[i].isfile
        /\ folder[i].data.t = "dict"
        /\ TypeOf(folder[i].data).t = "str"
        /\ Lower(TypeOf(folder[i].data).s) = Chars("dataset") }

\* C18: fetch_set returns the first file, in traversal order, whose
\* top-level type is case-insensitively "dataset", also when there are
\* several, and 'not found' when there is none.
C18_FetchSetReturnsFirstMatch ==
    (finder # "none" /\ fetch_raised = "")
        => IF DatasetEntries = {}
           THEN dataset_file = Str("not found")
           ELSE dataset_file =
                    PyStr(SubItemPath(folder[CHOOSE i \in DatasetEntries :
                                                 \A j \in DatasetEntries : i <= j]))

----------------------------------------------------------------------------
(* The command lines: main of export_xlsx.py and main of process_dataset.py *)
(* argv is sys.argv[1:], `existing` the paths os.path.exists finds, and the *)
(* workbook is what the Excel file holds.                                    *)

\* os.path.exists(path), were every path found
ExistsAlways(path, paths) == TRUE

\* os.path.exists(path), paths being the paths that exist
Exists(path, paths) == path \in paths

\* os.path.splitext(path)[0]: the path without its extension, the last dot
\* of the last component when one follows the first character of it
SplitExtRoot(path) ==
    LET dots == { i \in 1..Len(path) : path[i] = "." }
        slashes == { i \in 1..Len(path) : path[i] = "/" }
        dot == IF dots = {} THEN 0 ELSE CHOOSE i \in dots : \A j \in dots : j <= i
        slash == IF slashes = {} THEN 0 ELSE CHOOSE i \in slashes : \A j \in slashes : j <= i
    IN  IF dot > slash + 1 THEN SubSeq(path, 1, dot - 1) ELSE path

\* output_xml_path or output_jsonl_path of an export: the path given, or
\* the path of the workbook with the extension of the format
OutputPathOf(excel_file_path, output_path, extension) ==
    IF output_path = PyNone
    THEN SplitExtRoot(excel_file_path) \o Chars(extension)
    ELSE output_path.s

\* format_type, were a second argument always taken for the output file
FormatTypeIgnored(arguments) == "both"

\* format_type as main of export_xlsx.py sets it from sys.argv[2]
FormatType(arguments) ==
    IF Len(arguments) > 1 /\ Lower(Chars(arguments[2])) \in {Chars("xml"), Chars("jsonl")}
    THEN IF Lower(Chars(arguments[2])) = Chars("xml") THEN "xml" ELSE "jsonl"
    ELSE "both"

\* output_file as main of export_xlsx.py sets it
OutputFile(arguments) ==
    IF Len(arguments) > 1
    THEN IF Lower(Chars(arguments[2])) \in {Chars("xml"), Chars("jsonl")}
         THEN IF Len(arguments) > 2 THEN Str(arguments[3]) ELSE PyNone
         ELSE Str(arguments[2])
    ELSE PyNone

\* the files an export that ended as result has written: each document
\* under its path
FilesOf(result, xml_path, jsonl_path) ==
    (IF result.xml = Unset THEN {} ELSE {[path |-> xml_path, document |-> result.xml]})
        \cup (IF result.jsonl = Unset THEN {}
              ELSE {[path |-> jsonl_path, document |-> result.jsonl]})

\* the try block of main of export_xlsx.py once the export has ended as
\* result: the files it wrote, and the code sys.exit is called with, 0
\* when main returns
Converted(excel_file, given, result) ==
    /\ exit_code' = PyNum(IF result.raised = "" THEN 0 ELSE 1)
    /\ written_files' =
           written_files \cup FilesOf(result, OutputPathOf(Chars(excel_file), given, ".xml"),
                                      OutputPathOf(Chars(excel_file), given, ".jsonl"))

\* a workbook of the sheets given
WorkbookOf(info, participants, dua, authors, curators, references) ==
    PyDict(Sheet("dataset_info", info) \o Sheet("participants_info", participants)
           \o Sheet("DUA", dua) \o Sheet("authors", authors)
           \o Sheet("dataset curators", curators)
           \o Sheet("funding", references[1]) \o Sheet("publications", references[2]))

\* the workbooks the command lines are run on: the complete one; one
\* without its participants_info sheet, which validation reports; one whose
\* age range is a number, which the parse raises on; one with a curator
\* without institution, which validation raises on
CliWorkbooks ==
    { WorkbookOf(InfoComplete, participants, DuaComplete, AuthorsComplete, curators,
                 ReferencesComplete) :
        participants \in { ParticipantsComplete, Unset,
                           ParticipantsSheet(PyNum(25), PyFloat(18)) },
        curators \in { CuratorsComplete, Headed(2, << <<Str("C"), PyNaN>> >>) } }

\* the command lines of export_xlsx.py
ExportArguments ==
    { <<>>, <<"w.xlsx">>, <<"w.xlsx", "xml">>, <<"w.xlsx", "jsonl">>,
      <<"w.xlsx", "XML">>, <<"w.xlsx", "xml", "o.xml">>, <<"w.xlsx", "jsonl", "o.jsonl">>,
      <<"w.xlsx", "o.txt">>, <<"d.1/w", "xml">>, <<"d.1/w">> }

\* the command lines of process_dataset.py
ProcessArguments ==
    { <<"w.xlsx">>, <<"w.xlsx", "data">>, <<"w.xlsx", "data", "PN*">> }

\* a script is about to run
InitCli ==
    /\ CleanIdle
    /\ NormIdle
    /\ ListerIdle
    /\ FinderIdle
    /\ workbook \in CliWorkbooks
    /\ xml_file = Unset
    /\ jsonl_file = Unset
    /\ export_call = NoCall
    /\ validation = NotValidated
    /\ dataset_jsonl = Unset
    /\ file_list = PyList(<<PyDict(<<At("path", Str("a/b")),
                                     At("contentbytesize", PyNum(5))>>)>>)
    /\ output_file = Unset
    /\ catalog_file = <<>>
    /\ pfm_outcome = "idle"
    /\ pfm_return = Unset
    /\ pfm_runs = 0
    /\ PipelineIdle
    /\ BesideCliIdle
    /\ program = "none"
    /\ argv \in ExportArguments \cup ProcessArguments
    /\ existing \in SUBSET (IF argv = <<>> THEN {}
                            ELSE {argv[i] : i \in 1..Len(argv)} \cap {"w.xlsx", "d.1/w", "data"})
    /\ exit_code = Unset
    /\ written_files = {}

\* main of export_xlsx.py has a workbook to convert: sys.argv holds a path
\* and the path exists
WorkbookGiven == Len(argv) >= 1 /\ Exists(argv[1], existing)

\* python export_xlsx.py argv: usage and exit 1 without a workbook, exit 1
\* when the workbook is missing, then the export of the format; in the
\* default mode export_xlsx_to_both is called with the workbook alone
ExportXlsxMain ==
    /\ program = "none"
    /\ argv \in ExportArguments
    /\ program' = "export_xlsx"
    /\ \/ /\ ~WorkbookGiven
          /\ exit_code' = PyNum(1)
          /\ UNCHANGED written_files
       \/ /\ WorkbookGiven
          /\ FormatType(argv) = "xml"
          /\ Converted(argv[1], OutputFile(argv),
                       export_xlsx_to_xml(parse_excel_metadata(workbook), FALSE))
       \/ /\ WorkbookGiven
          /\ FormatType(argv) = "jsonl"
          /\ Converted(argv[1], OutputFile(argv),
                       export_xlsx_to_jsonl(parse_excel_metadata(workbook), FALSE))
       \/ /\ WorkbookGiven
          /\ FormatType(argv) = "both"
          /\ Converted(argv[1], PyNone, export_xlsx_to_both(parse_excel_metadata(workbook)))
    /\ UNCHANGED <<argv, existing, cleanVars, catalogVars, exportVars, pipelineVars,
                   normVars, listerVars, finderVars, besideCli>>

\* python process_dataset.py argv, up to the call of process_dataset:
\* parser.parse_args() exits with 2 unless there are two positional
\* arguments, and main exits with 1 when one of the two paths is missing
ProcessDatasetMain ==
    /\ program = "none"
    /\ argv \in ProcessArguments
    /\ program' = "process_dataset"
    /\ exit_code' = IF Len(argv) # 2 THEN PyNum(2)
                    ELSE IF ~Exists(argv[1], existing) THEN PyNum(1)
                    ELSE IF ~Exists(argv[2], existing) THEN PyNum(1)
                    ELSE Unset
    /\ pd_pc' = IF exit_code' = Unset THEN "step1" ELSE pd_pc
    /\ UNCHANGED <<argv, existing, written_files, cleanVars, catalogVars, exportVars,
                   pd_calls, dataset_pattern, validate_result, import_result, pd_raised,
                   pd_return, normVars, listerVars, finderVars, besideCli>>

\* main of process_dataset.py once process_dataset has returned, or raised
\* what the except clause turns into sys.exit(1)
ProcessDatasetExit ==
    /\ program = "process_dataset"
    /\ exit_code = Unset
    /\ pd_pc \in {"returned", "raised"}
    /\ exit_code' = IF pd_pc = "raised" THEN PyNum(1) ELSE PyNum(0)
    /\ UNCHANGED <<program, argv, existing, written_files, cleanVars, catalogVars,
                   exportVars, pipelineVars, normVars, listerVars, finderVars, besideCli>>

NextCli ==
    \/ ExportXlsxMain
    \/ ProcessDatasetMain
    \/ ConvertExcel
    \/ GenerateFileCatalog
    \/ ExtractPattern
    \/ Validate
    \/ Import
    \/ Find
    \/ ProcessDatasetExit

SpecCli == InitCli /\ [][NextCli]_vars

----------------------------------------------------------------------------
(* Claims about the command lines *)

\* export_xlsx.py has run on a workbook that exists
ExportRan == program = "export_xlsx" /\ Len(argv) >= 1 /\ argv[1] \in existing

\* the record of the workbook, when it parses
CliRecord == parse_excel_metadata(workbook).metadata

\* the workbook parses and validate_metadata returns
CliChecked ==
    /\ parse_excel_metadata(workbook).raised = ""
    /\ validate_metadata(CliRecord).raised = ""

\* validate_metadata reports no issue, or one at least
CliIssues == total_errors(validate_metadata(CliRecord).validation_errors)

\* the format named by the command line, whatever its case
FormatGiven(format) == Len(argv) >= 2 /\ argv[2] \in {format, "XML"} /\ Lower(Chars(argv[2])) = Chars(format)

\* the default output path: the path of the workbook, its extension
\* replaced
DefaultPath(extension) ==
    (IF argv[1] = "w.xlsx" THEN Chars("w") ELSE Chars("d.1/w")) \o Chars(extension)

\* the path of the one file of a run with a format
GivenPath(extension) ==
    IF Len(argv) >= 3 THEN Chars(argv[3]) ELSE DefaultPath(extension)

XmlFileAt(path) == [path |-> path, document |-> XmlDocument(CliRecord)]

JsonlFileAt(path) == [path |-> path, document |-> JsonlData(CliRecord)]

\* what the command line writes for a workbook that converts
FilesExpected ==
    IF FormatGiven("xml") THEN {XmlFileAt(GivenPath(".xml"))}
    ELSE IF FormatGiven("jsonl") THEN {JsonlFileAt(GivenPath(".jsonl"))}
    ELSE {XmlFileAt(DefaultPath(".xml")), JsonlFileAt(DefaultPath(".jsonl"))}

NothingRun ==
    /\ pd_pc = "idle"
    /\ pd_calls = <<>>
    /\ xml_file = Unset
    /\ jsonl_file = Unset
    /\ catalog_file = <<>>
    /\ written_files = {}

----------------------------------------------------------------------------
(* The repair of hasPart and isPartOf: fix_ucb_dataset of                   *)
(* fix_all_ucb_datasets.py and of fix_ucb_dataset.py.  The file is the      *)
(* sequence of its lines, each the JSON object it parses to, a blank line,  *)
(* or a line that is no JSON.                                               *)

BlankLine == [k |-> "", t |-> "blank", s |-> <<>>, n |-> 0, c |-> <<>>]

NoJsonLine == [k |-> "", t |-> "nojson", s |-> <<>>, n |-> 0, c |-> <<>>]

\* [line.strip() for line in f.readlines() if line.strip()]
StrippedLines(lines) == SelectSeq(lines, LAMBDA line : line # BlankLine)

\* the lines after the first that are file entries with a path; a line that
\* is no JSON is passed over
UcbFileEntries(lines) ==
    SelectSeq(Tail(lines),
              LAMBDA line : /\ line.t = "dict"
                            /\ GetOr(line, "type", PyNone) = Str("file")
                            /\ HasKey(line, "path"))

\* entry[key] = entry[key].strip() if key in entry
Stripped(entry, key) ==
    IF HasKey(entry, key) THEN Put(entry, key, StripValue(Get(entry, key))) ELSE entry

\* entry[key] = value if key not in entry
PutIfAbsent(entry, key, value) ==
    IF HasKey(entry, key) THEN entry ELSE Put(entry, key, value)

\* the paths of file entries
PathsOf(file_entries) == [i \in 1..Len(file_entries) |-> Get(file_entries[i], "path")]

\* fix_ucb_dataset(input_file) of fix_all_ucb_datasets.py on the lines of
\* the file: [lines, outcome]
fix_ucb_dataset(read) ==
    LET lines == StrippedLines(read)
        skipped == [lines |-> read, outcome |-> "skipped"]
    IN  IF lines = <<>> THEN skipped
        ELSE IF lines[1] = NoJsonLine THEN skipped
        ELSE IF GetOr(lines[1], "type", PyNone) # Str("dataset") THEN skipped
        ELSE LET file_entries == UcbFileEntries(lines)
                 dataset_entry ==
                     PutIfAbsent(Stripped(lines[1], "dataset_id"), "hasPart",
                                 PyList(Sorted(PathsOf(file_entries))))
             IN  IF file_entries = <<>> THEN skipped
                 ELSE IF ~HasKey(dataset_entry, "dataset_id")
                      THEN [lines |-> read, outcome |-> "KeyError"]
                      ELSE [lines |-> <<dataset_entry>> \o
                                [i \in 1..Len(file_entries) |->
                                    PutIfAbsent(Stripped(file_entries[i], "dataset_id"),
                                                "isPartOf",
                                                Get(dataset_entry, "dataset_id"))],
                            outcome |-> "fixed"]

\* fix_ucb_dataset() of fix_ucb_dataset.py on the lines of its file: no
\* line is passed over, nothing is trimmed, hasPart and isPartOf are set
\* whatever the entries held
fix_one_ucb_dataset(read) ==
    LET lines == StrippedLines(read)
        raised(exception) == [lines |-> read, outcome |-> exception]
    IN  IF lines = <<>> THEN raised("IndexError")
        ELSE IF \E i \in 1..Len(lines) : lines[i] = NoJsonLine
             THEN raised("JSONDecodeError")
        ELSE LET file_entries == UcbFileEntries(lines)
                 dataset_entry ==
                     Put(lines[1], "hasPart", PyList(Sorted(PathsOf(file_entries))))
             IN  IF ~HasKey(dataset_entry, "dataset_id") THEN raised("KeyError")
                 ELSE [lines |-> <<dataset_entry>> \o
                           [i \in 1..Len(file_entries) |->
                               Put(file_entries[i], "isPartOf",
                                   Get(dataset_entry, "dataset_id"))],
                       outcome |-> "fixed"]

\* the most lines of a file repaired
MaxUcbLines == 3

\* the lines: a dataset record with an untrimmed identifier, one with a
\* stale hasPart, one without identifier; a file entry with an untrimmed
\* identifier, one with a stale isPartOf; an entry of another type; a blank
\* line; a line that is no JSON
UcbLines ==
    { PyDict(<<At("type", Str("dataset")), At("dataset_id", PyStr(Chars("PN1") \o <<" ">>))>>),
      PyDict(<<At("type", Str("dataset")), At("dataset_id", Str("PN1")),
               At("hasPart", PyList(<<Str("old")>>))>>),
      PyDict(<<At("type", Str("dataset"))>>),
      PyDict(<<At("type", Str("file")), At("path", Str("b")),
               At("dataset_id", PyStr(Chars("PN1") \o <<" ">>))>>),
      PyDict(<<At("type", Str("file")), At("path", Str("a")),
               At("isPartOf", Str("old"))>>),
      PyDict(<<At("type", Str("other")), At("path", Str("c"))>>),
      BlankLine,
      NoJsonLine }

InitUcb ==
    /\ CleanIdle
    /\ CatalogIdle
    /\ ExportIdle
    /\ PipelineIdle
    /\ NormIdle
    /\ ListerIdle
    /\ FinderIdle
    /\ BesideUcbIdle
    /\ ucb_file \in SeqsUpTo(UcbLines, MaxUcbLines)
    /\ ucb_before = <<>>
    /\ ucb_call = [script |-> "none", outcome |-> ""]

\* a script has run on the file and ended as `ended`
UcbRun(script, ended) ==
    /\ ucb_before' = ucb_file
    /\ ucb_file' = ended.lines
    /\ ucb_call' = [script |-> script, outcome |-> ended.outcome]

FixUcbDataset ==
    /\ UcbRun("fix_all_ucb_datasets", fix_ucb_dataset(ucb_file))
    /\ UNCHANGED <<cleanVars, catalogVars, exportVars, pipelineVars, normVars,
                   listerVars, finderVars, besideUcb>>

FixOneUcbDataset ==
    /\ UcbRun("fix_ucb_dataset", fix_one_ucb_dataset(ucb_file))
    /\ UNCHANGED <<cleanVars, catalogVars, exportVars, pipelineVars, normVars,
                   listerVars, finderVars, besideUcb>>

NextUcb == FixUcbDataset \/ FixOneUcbDataset

SpecUcb == InitUcb /\ [][NextUcb]_vars

\* C27: after fix_ucb_dataset of fix_all_ucb_datasets.py has rewritten a
\* file, hasPart of its dataset line is the sorted paths of its file lines
\* and isPartOf of every file line is the trimmed dataset_id, whatever the
\* file held before; on every other path the file is left as it was.
C27_RepairedFileHoldsRelationships ==
    ucb_call.script = "fix_all_ucb_datasets" =>
        IF ucb_call.outcome = "fixed"
        THEN LET file_lines == Tail(ucb_file)
             IN  /\ Get(ucb_file[1], "hasPart") = PyList(Sorted(PathsOf(file_lines)))
                 /\ \A i \in 1..Len(file_lines) :
                        /\ HasKey(file_lines[i], "isPartOf")
                        /\ Get(file_lines[i], "isPartOf")
                               = StripValue(Get(ucb_file[1], "dataset_id"))
        ELSE ucb_file = ucb_before

----------------------------------------------------------------------------
(* The size annotation: update_dataset_description of                       *)
(* update_dataset_sizes.py.  The file holds a JSON value, or no JSON.       *)

\* '(total size:' in description.lower(), were it never found
SizePresentNever(description) == FALSE

\* '(total size:' in description.lower()
SizePresent(description) == Contains(Lower(description), Chars("(total size:"))

\* f"{description} (total size: {size_gb}GB)"
WithSize(description, size_gb) ==
    description \o Chars(" (total size: ") \o StrOf(size_gb) \o Chars("GB)")

\* update_dataset_description(dataset_json_path, size_gb) on what the file
\* holds: [held, returned].  A file that is no JSON, a value that is no
\* object and a description that is no str raise inside the try block, and
\* the except clause returns False.
update_dataset_description(held, size_gb) ==
    LET unchanged == [held |-> held, returned |-> "False"]
    IN  IF held = NoJsonLine THEN unchanged
        ELSE IF held.t # "dict" THEN unchanged
        ELSE IF GetOr(held, "type", PyNone) # Str("dataset") THEN unchanged
        ELSE IF ~HasKey(held, "description") THEN unchanged
        ELSE IF Get(held, "description").t # "str" THEN unchanged
        ELSE IF SizePresent(Get(held, "description").s) THEN unchanged
        ELSE [held |-> Put(held, "description",
                           PyStr(WithSize(Get(held, "description").s, size_gb))),
              returned |-> "True"]

\* the most calls on one file
MaxSizeCalls == 3

\* the sizes: as load_size_data reads them, floats, and an int
SizeValues == { PyFloat(5), PyFloat(0), PyNum(12) }

\* the files: a dataset record with a description, with or without a name
\* after it; a record with a description that is a number or null; one
\* without description; one of another type; a list; no JSON
SizeFiles ==
    { PyDict(<<At("type", Str("dataset")), At("description", d)>> \o more)
        : d \in { Str("D"), Str(""), Str("GB)"), Str("(total size"), Str("size: 1GB"),
                  Str("D (Total Size: 2GB)"), Str("(total size:"), PyNum(3), PyNone },
          more \in { <<>>, <<At("name", Str("N"))>> } }
    \cup { PyDict(<<At("type", Str("dataset")), At("name", Str("N"))>>),
           PyDict(<<At("type", Str("file")), At("description", Str("D"))>>),
           PyDict(<<At("description", Str("D"))>>),
           PyList(<<Str("D")>>),
           NoJsonLine }

InitSize ==
    /\ CleanIdle
    /\ CatalogIdle
    /\ ExportIdle
    /\ PipelineIdle
    /\ NormIdle
    /\ ListerIdle
    /\ FinderIdle
    /\ BesideSizeIdle
    /\ size_file \in SizeFiles
    /\ size_before = Unset
    /\ size_return = "none"
    /\ size_updates = 0
    /\ size_calls = 0

UpdateDatasetDescription ==
    /\ size_calls < MaxSizeCalls
    /\ \E size_gb \in SizeValues :
          LET ended == update_dataset_description(size_file, size_gb)
          IN  /\ size_file' = ended.held
              /\ size_return' = ended.returned
              /\ size_updates' = IF ended.returned = "True"
                                 THEN size_updates + 1 ELSE size_updates
    /\ size_before' = size_file
    /\ size_calls' = size_calls + 1
    /\ UNCHANGED <<cleanVars, catalogVars, exportVars, pipelineVars, normVars,
                   listerVars, finderVars, besideSize>>

NextSize == UpdateDatasetDescription

SpecSize == InitSize /\ [][NextSize]_vars

\* the annotations a description holds, in any case of letters
Annotations(held) == Places(Lower(Get(held, "description").s), Chars("(total size:"))

\* the file but for its description
BesideDescription(held) == SelectSeq(held.c, LAMBDA e : e.k # "description")

\* C28: over any number of calls of update_dataset_description on a file,
\* with any sizes, at most one call returns True; that call appends the
\* annotation to the description and changes nothing else, after it the
\* description holds the annotation exactly once, and a call that returns
\* False leaves the file as it was.
C28_SizeAppendedOnce ==
    /\ size_updates <= 1
    /\ size_return = "False" => size_file = size_before
    /\ size_return = "True" =>
          /\ \E size_gb \in SizeValues :
                Get(size_file, "description").s
                    = Get(size_before, "description").s \o Chars(" (total size: ")
                          \o StrOf(size_gb) \o Chars("GB)")
          /\ BesideDescription(size_file) = BesideDescription(size_before)
          /\ Len(size_file.c) = Len(size_before.c)
    /\ size_updates = 1 => Cardinality(Annotations(size_file)) = 1

\* C28 witness: a call has returned True and a later call, with another
\* size, False.
C28_Witness ==
    /\ size_updates = 1
    /\ size_calls >= 2
    /\ size_return = "False"
    /\ EndsWith(Get(size_file, "description").s, Chars("(total size: 5.0GB)"))

----------------------------------------------------------------------------
(* The order of children: sort_children of find_catalogue_set_file.py       *)

\* child.get('name', '') and child.get('type', '')
NameOf(child) == GetOr(child, "name", Str("")).s

ChildType(child) == GetOr(child, "type", Str("")).s

\* name[4:]
SubPart(child) == SubSeq(NameOf(child), 5, Len(NameOf(child)))

\* re.match(r'^\d+$', sub_part)
IsDigits(chars) ==
    /\ chars # <<>>
    /\ \A i \in 1..Len(chars) : \E d \in 1..10 : Chars("0123456789")[d] = chars[i]

\* int(sub_part) of digits
RECURSIVE IntOf(_)
IntOf(chars) ==
    IF chars = <<>> THEN 0
    ELSE 10 * IntOf(SubSeq(chars, 1, Len(chars) - 1))
         + (CHOOSE d \in 0..9 : Chars("0123456789")[d + 1] = chars[Len(chars)])

\* the list a child is appended to
Category(child) ==
    IF NameOf(child) = Chars("source") THEN "source_items"
    ELSE IF NameOf(child) = Chars("code") THEN "code_items"
    ELSE IF ChildType(child) = Chars("file") THEN "file_items"
    ELSE IF StartsWith(NameOf(child), Chars("sub-"))
         THEN IF IsDigits(SubPart(child)) THEN "sub_numeric_items" ELSE "sub_alpha_items"
    ELSE "other_items"

\* child['_sort_key'], were the text after 'sub-' always the key
SortKeyText(child) == PyStr(SubPart(child))

\* child['_sort_key']: the integer for digits, else the text after 'sub-'
SortKey(child) ==
    IF IsDigits(SubPart(child)) THEN PyNum(IntOf(SubPart(child))) ELSE PyStr(SubPart(child))

\* the children of a category, in input order, the sub-* ones with their
\* sort key
Items(list, category) ==
    LET items == SelectSeq(list, LAMBDA child : Category(child) = category)
    IN  IF category \in {"sub_numeric_items", "sub_alpha_items"}
        THEN [i \in 1..Len(items) |-> Put(items[i], "_sort_key", SortKey(items[i]))]
        ELSE items

\* a < b for two sort keys of one list
KeyLess(a, b) == IF a.t = "num" /\ b.t = "num" THEN a.n < b.n ELSE StrLess(a.s, b.s)

\* one step of list.sort(key=...): x put after its equals
RECURSIVE InsertByKey(_, _)
InsertByKey(x, items) ==
    IF items = <<>> THEN <<x>>
    ELSE IF KeyLess(Get(x, "_sort_key"), Get(Head(items), "_sort_key")) THEN <<x>> \o items
    ELSE <<Head(items)>> \o InsertByKey(x, Tail(items))

\* items.sort(key=lambda x: x['_sort_key']), a stable sort
RECURSIVE SortedByKey(_)
SortedByKey(items) ==
    IF items = <<>> THEN <<>>
    ELSE InsertByKey(items[Len(items)], SortedByKey(SubSeq(items, 1, Len(items) - 1)))

\* del item['_sort_key'] for the items that have one
WithoutSortKey(items) ==
    [i \in 1..Len(items) |->
        [items[i] EXCEPT !.c = SelectSeq(items[i].c, LAMBDA e : e.k # "_sort_key")]]

\* sort_children(children)
sort_children(list) ==
    Items(list, "source_items") \o Items(list, "code_items") \o Items(list, "file_items")
        \o WithoutSortKey(SortedByKey(Items(list, "sub_numeric_items")))
        \o WithoutSortKey(SortedByKey(Items(list, "sub_alpha_items")))
        \o Items(list, "other_items")

\* the most children of a dataset
MaxChildren == 3

\* the children: the two named directories, files, numbered and lettered
\* subjects, and others
Child(name, type) == PyDict(<<At("name", Str(name)), At("type", Str(type))>>)

ChildrenSet ==
    { Child("source", "directory"), Child("code", "directory"), Child("a.json", "file"),
      Child("sub-9", "file"), Child("sub-10", "directory"), Child("sub-2", "directory"),
      Child("sub-02", "directory"), Child("sub-b", "directory"), Child("sub-1a", "directory"),
      Child("x", "directory"), PyDict(<<At("type", Str("directory"))>>) }

InitSort ==
    /\ CleanIdle
    /\ CatalogIdle
    /\ ExportIdle
    /\ PipelineIdle
    /\ NormIdle
    /\ ListerIdle
    /\ FinderIdle
    /\ BesideSortIdle
    /\ children \in SeqsUpTo(ChildrenSet, MaxChildren)
    /\ sorted_children = Unset
    /\ resorted_children = Unset

SortChildren ==
    /\ sorted_children = Unset
    /\ sorted_children' = sort_children(children)
    /\ UNCHANGED <<children, resorted_children, cleanVars, catalogVars, exportVars,
                   pipelineVars, normVars, listerVars, finderVars, besideSort>>

SortChildrenAgain ==
    /\ sorted_children # Unset
    /\ resorted_children = Unset
    /\ resorted_children' = sort_children(sorted_children)
    /\ UNCHANGED <<children, sorted_children, cleanVars, catalogVars, exportVars,
                   pipelineVars, normVars, listerVars, finderVars, besideSort>>

NextSort == SortChildren \/ SortChildrenAgain

SpecSort == InitSort /\ [][NextSort]_vars

\* how often a child stands in a list
TimesIn(child, list) == Cardinality({i \in 1..Len(list) : list[i] = child})

\* the place of a child in the group order: named 'source', named 'code',
\* of type 'file', 'sub-<digits>', other 'sub-*', the others
GroupOf(child) ==
    LET name == GetOr(child, "name", Str("")).s
    IN  IF name = Chars("source") THEN 1
        ELSE IF name = Chars("code") THEN 2
        ELSE IF GetOr(child, "type", Str("")) = Str("file") THEN 3
        ELSE IF Len(name) >= 4 /\ SubSeq(name, 1, 4) = Chars("sub-")
             THEN IF Len(name) > 4
                     /\ \A i \in 5..Len(name) :
                            name[i] \in {"0", "1", "2", "3", "4", "5", "6", "7", "8", "9"}
                  THEN 4 ELSE 5
        ELSE 6

\* the number a 'sub-<digits>' name holds, for the names of ChildrenSet
NumberOf(child) ==
    LET name == Get(child, "name")
    IN  IF name = Str("sub-9") THEN 9 ELSE IF name = Str("sub-10") THEN 10 ELSE 2

GroupItems(list, group) == SelectSeq(list, LAMBDA child : GroupOf(child) = group)

\* C29: sort_children returns a permutation of its input, no child altered
\* and none holding '_sort_key', the groups in their order, the numbered
\* subjects ascending by number and the other subjects by the text after
\* 'sub-', the input order kept inside the other groups; and sorting the
\* result again returns it unchanged.
C29_SortChildrenOrdersGroups ==
    /\ sorted_children # Unset =>
          /\ Len(sorted_children) = Len(children)
          /\ \A i \in 1..Len(children) :
                TimesIn(children[i], sorted_children) = TimesIn(children[i], children)
          /\ \A i \in 1..Len(sorted_children) : ~HasKey(sorted_children[i], "_sort_key")
          /\ \A i, j \in 1..Len(sorted_children) :
                i < j =>
                  LET a == sorted_children[i]
                      b == sorted_children[j]
                  IN  /\ GroupOf(a) <= GroupOf(b)
                      /\ (GroupOf(a) = 4 /\ GroupOf(b) = 4) => NumberOf(a) <= NumberOf(b)
                      /\ (GroupOf(a) = 5 /\ GroupOf(b) = 5)
                            => ~StrLess(SubSeq(Get(b, "name").s, 5, Len(Get(b, "name").s)),
                                        SubSeq(Get(a, "name").s, 5, Len(Get(a, "name").s)))
          /\ \A group \in {1, 2, 3, 6} :
                GroupItems(sorted_children, group) = GroupItems(children, group)
    /\ resorted_children # Unset => resorted_children = sorted_children

\* C29 witness: of 'x', 'sub-10', 'sub-2' the sort has made 'sub-2',
\* 'sub-10', 'x', and the second sort has returned the same.
C29_Witness ==
    /\ resorted_children # Unset
    /\ children = <<Child("x", "directory"), Child("sub-10", "directory"),
                    Child("sub-2", "directory")>>
    /\ sorted_children = <<Child("sub-2", "directory"), Child("sub-10", "directory"),
                           Child("x", "directory")>>
    /\ resorted_children = sorted_children

----------------------------------------------------------------------------
(* The catalogue search: find_catalogue_set_file.  The catalogue stands     *)
(* under /base, where the scripts are checked out: `metadata` is missing, a *)
(* file, or a directory of the dataset directories below, each absent or    *)
(* present with what its version directory holds for a dataset file.        *)

\* the dataset directories of the catalogue, in listing order
CatalogueDirs ==
    << [directory |-> "PN000001 A", version |-> "V1"],
       [directory |-> "PN000002 B", version |-> "V1"] >>

\* a dataset directory that is not there
Absent == [k |-> "", t |-> "absent", s |-> <<>>, n |-> 0, c |-> <<>>]

\* the absolute path of a version directory
VersionPath(i) ==
    Chars("/base/metadata/") \o Chars(CatalogueDirs[i].directory) \o <<"/">>
        \o Chars(CatalogueDirs[i].version)

\* base_path, the directory above the scripts when none is given
BasePath(base_path) == IF base_path = "None" THEN "/base" ELSE base_path

\* the working directory after the finally clause, were it not there
NotRestored(original_cwd, current) == current

\* os.chdir(original_cwd) of the finally clause
Restored(original_cwd, current) == original_cwd

\* fetch_set(version_path) != 'not found', inside the try of the loop: the
\* version directory holds one directory with the one file held
DatasetFound(held) ==
    /\ held \notin {Absent, Unset}
    /\ LET fetched == fetch_set(<<[item |-> "dataset", isdir |-> TRUE, sub_item |-> "d.json",
                                   isfile |-> TRUE, data |-> held]>>)
       IN  fetched.raised = "" /\ fetched.dataset_file # Str("not found")

\* pattern.split("*/")[0]
PnPrefix(pattern) ==
    LET at == CHOOSE i \in Places(pattern, Chars("*/")) :
                  \A j \in Places(pattern, Chars("*/")) : i <= j
    IN  SubSeq(pattern, 1, at - 1)

\* pattern.split("/")[-1]
VersionPattern(pattern) == SplitOn(pattern, "/")[Len(SplitOn(pattern, "/"))]

\* the version directory matches the version pattern
VersionMatches(version_pattern, version_item) ==
    \/ version_pattern = Chars("V*") /\ StartsWith(version_item, Chars("V"))
    \/ version_pattern = version_item

\* the body of the try block up to the summary: how it ends, and the
\* places in CatalogueDirs of the results
Search(target_pattern, layout) ==
    LET target == Chars(target_pattern)
        there(i) == layout.metadata = "dir" /\ layout.held[i] # Absent
        pattern == IF StartsWith(target, Chars("metadata/"))
                   THEN SubSeq(target, 10, Len(target)) ELSE target
        found(matching) ==
            SelectSeq(matching, LAMBDA i : DatasetFound(layout.held[i]))
        all == [i \in 1..Len(CatalogueDirs) |-> i]
    IN  IF target[1] = "/" /\ \E i \in 1..Len(CatalogueDirs) : there(i) /\ target = VersionPath(i)
        THEN [ended |-> "searched", raised |-> "",
              results |-> found(SelectSeq(all, LAMBDA i : target = VersionPath(i)))]
        ELSE IF layout.metadata = "missing"
        THEN [ended |-> "returned", raised |-> "", results |-> <<>>]
        ELSE IF Contains(pattern, Chars("*/")) /\ StartsWith(VersionPattern(pattern), Chars("V"))
        THEN IF layout.metadata = "file"
             THEN [ended |-> "raised", raised |-> "NotADirectoryError", results |-> <<>>]
             ELSE LET matching_dirs ==
                          SelectSeq(all, LAMBDA i :
                              /\ there(i)
                              /\ StartsWith(Chars(CatalogueDirs[i].directory), PnPrefix(pattern)))
                      matching_versions ==
                          SelectSeq(matching_dirs, LAMBDA i :
                              VersionMatches(VersionPattern(pattern),
                                             Chars(CatalogueDirs[i].version)))
                  IN  IF matching_dirs = <<>>
                      THEN [ended |-> "returned", raised |-> "", results |-> <<>>]
                      ELSE [ended |-> "searched", raised |-> "",
                            results |-> found(matching_versions)]
        ELSE [ended |-> "searched", raised |-> "", results |-> <<>>]

\* reorder_dataset_children(file_path, verbose) on what the file holds
reorder_dataset_children(held) ==
    IF GetOr(held, "type", PyNone) # Str("dataset") THEN held
    ELSE IF ~HasKey(held, "children") THEN held
    ELSE Put(held, "children", PyList(sort_children(Get(held, "children").c)))

\* reorder_children once the user has been asked, when asked
ReorderChildren(arguments, results, response) ==
    IF results # <<>> /\ arguments.reorder_children = "None" /\ arguments.verbose
    THEN IF response = "Y" THEN "True" ELSE "False"
    ELSE arguments.reorder_children

\* the dataset files a catalogue directory holds
DatasetFiles ==
    { Absent, Unset,
      PyDict(<<At("type", Str("dataset")),
               At("children", PyList(<<Child("x", "directory"), Child("sub-2", "directory"),
                                       Child("source", "directory")>>))>>),
      PyDict(<<At("type", Str("Dataset")),
               At("children", PyList(<<Child("x", "directory"),
                                       Child("code", "directory")>>))>>) }

Catalogues ==
    { [metadata |-> "missing", held |-> <<Absent, Absent>>],
      [metadata |-> "file", held |-> <<Absent, Absent>>] }
    \cup { [metadata |-> "dir", held |-> held] : held \in [1..2 -> DatasetFiles] }

\* the calls made
SearchArguments ==
    [ target_pattern : {"PN*/V*", "metadata/PN000001*/V1", "PN09*/V1", "PN000001",
                        "/base/metadata/PN000001 A/V1"},
      base_path : {"None", "/base", "/gone"},
      verbose : BOOLEAN,
      reorder_children : {"None", "True", "False"} ]

InitSearch ==
    /\ CleanIdle
    /\ CatalogIdle
    /\ ExportIdle
    /\ PipelineIdle
    /\ NormIdle
    /\ ListerIdle
    /\ FinderIdle
    /\ BesideSearchIdle
    /\ cwd \in {"/home", "/base"}
    /\ cwd_found = cwd
    /\ fc_pc = "called"
    /\ fc_args \in SearchArguments
    /\ catalogue \in Catalogues
    /\ catalogue_found = catalogue
    /\ fc_results = <<>>
    /\ fc_raised = ""

searchRest ==
    <<cleanVars, catalogVars, exportVars, pipelineVars, normVars, listerVars,
      finderVars, besideSearch>>

\* original_cwd = os.getcwd(); os.chdir(base_path), which raises before
\* the try block when base_path is not there
ChangeDirectory ==
    /\ fc_pc = "called"
    /\ IF BasePath(fc_args.base_path) = "/gone"
       THEN /\ fc_pc' = "raised"
            /\ fc_raised' = "FileNotFoundError"
            /\ UNCHANGED cwd
       ELSE /\ fc_pc' = "try"
            /\ cwd' = BasePath(fc_args.base_path)
            /\ UNCHANGED fc_raised
    /\ UNCHANGED <<cwd_found, fc_args, catalogue, catalogue_found, fc_results, searchRest>>

\* the try block up to the summary
SearchCatalogue ==
    /\ fc_pc = "try"
    /\ LET searched == Search(fc_args.target_pattern, catalogue)
       IN  /\ fc_results' = searched.results
           /\ fc_raised' = searched.raised
           /\ fc_pc' = IF searched.ended = "searched" THEN "reorder" ELSE "finally"
    /\ UNCHANGED <<cwd, cwd_found, fc_args, catalogue, catalogue_found, searchRest>>

\* the question, when asked, and the reordering, when requested
ReorderFound ==
    /\ fc_pc = "reorder"
    /\ \E response \in {"Y", "N", "EOFError"} :
          catalogue' =
              IF fc_results # <<>> /\ ReorderChildren(fc_args, fc_results, response) = "True"
              THEN [catalogue EXCEPT !.held =
                       [i \in 1..Len(catalogue.held) |->
                           IF \E r \in 1..Len(fc_results) : fc_results[r] = i
                           THEN reorder_dataset_children(catalogue.held[i])
                           ELSE catalogue.held[i]]]
              ELSE catalogue
    /\ fc_pc' = "finally"
    /\ UNCHANGED <<cwd, cwd_found, fc_args, catalogue_found, fc_results, fc_raised, searchRest>>

\* the finally clause, then the return or the exception
RestoreDirectory ==
    /\ fc_pc = "finally"
    /\ cwd' = Restored(cwd_found, cwd)
    /\ fc_pc' = IF fc_raised = "" THEN "returned" ELSE "raised"
    /\ UNCHANGED <<cwd_found, fc_args, catalogue, catalogue_found, fc_results, fc_raised,
                   searchRest>>

NextSearch == ChangeDirectory \/ SearchCatalogue \/ ReorderFound \/ RestoreDirectory

SpecSearch == InitSearch /\ [][NextSearch]_vars

\* C30: once find_catalogue_set_file has ended, by a return, an early
\* return or an exception, the working directory is the one it found; and
\* called with reorder_children=False, or with None and verbose=False, it
\* modifies no dataset file.
C30_WorkingDirectoryRestored ==
    /\ fc_pc \in {"returned", "raised"} => cwd = cwd_found
    /\ (fc_pc # "idle"
          /\ (fc_args.reorder_children = "False"
                \/ (fc_args.reorder_children = "None" /\ ~fc_args.verbose)))
          => catalogue = catalogue_found

\* C30 witness: called from /home on a catalogue whose metadata is a file,
\* the call has changed into /base, raised from the listing, and left the
\* process in /home.
C30_Witness ==
    /\ fc_pc = "raised"
    /\ fc_raised = "NotADirectoryError"
    /\ cwd_found = "/home"
    /\ cwd = "/home"
    /\ fc_args.reorder_children = "False"

----------------------------------------------------------------------------
(* More claims about the catalogue written by process_file_metadata *)

\* C24: the description of the dataset line written by
\* process_file_metadata, for a dataset record that has one, contains a total-size annotation of the form
\* "(total size: <n>GB)".
C24_DescriptionHoldsTotalSize ==
    (pfm_outcome = "ok" /\ HasKey(dataset_jsonl, "description")) =>
        /\ HasKey(catalog_file[1], "description")
        /\ LET description == Get(catalog_file[1], "description").s
           IN  \E i \in Places(description, Chars("(total size: ")) :
                   \E j \in Places(description, Chars("GB)")) : i < j

\* the fields process_file_metadata sets in the dataset record
FieldsSet == {"dataset_id", "dataset_version", "metadata_sources", "hasPart"}

\* C26: every field of the dataset record other than dataset_id,
\* dataset_version, metadata_sources and hasPart appears in the first line
\* written with exactly the value it had in the input, strings holding '//'
\* or a backslash included.
C26_OtherFieldsWrittenUnchanged ==
    pfm_outcome = "ok" =>
        \A i \in 1..Len(dataset_jsonl.c) :
            dataset_jsonl.c[i].k \notin FieldsSet
                => /\ HasKey(catalog_file[1], dataset_jsonl.c[i].k)
                   /\ Get(catalog_file[1], dataset_jsonl.c[i].k)
                          = Get(dataset_jsonl, dataset_jsonl.c[i].k)

----------------------------------------------------------------------------
(* The tolerance of parse_excel_metadata *)

\* C25: parse_excel_metadata returns a record without raising for every
\* workbook, whichever sheets are missing and whichever cells are empty or
\* hold numbers, a numeric age range included; a missing sheet yields the
\* empty collection.
C25_ParseReturnsForEveryWorkbook ==
    export_call # NoCall =>
        LET parsed == parse_excel_metadata(workbook)
        IN  /\ parsed.raised = ""
            /\ ~HasKey(workbook, "authors") => Get(parsed.metadata, "authors") = PyList(<<>>)
            /\ ~HasKey(workbook, "funding") => Get(parsed.metadata, "funding") = PyList(<<>>)

====
